---- MODULE Spec2Model ----
(***************************************************************************)
(* A model of lumux's real-time lighting sync pipeline:                    *)
(*   - EntertainmentStream (src/lumux/entertainment.py): the REST claim on *)
(*     the entertainment zone, the DTLS subprocess, the sequence counter   *)
(*     and the HueStream frame encoding;                                   *)
(*   - SyncController (src/lumux/sync.py) and ScreenCapture                *)
(*     (src/lumux/capture.py): start/stop, the loop thread, the capture    *)
(*     pipeline.                                                           *)
(* Operations of the stream are state transformers on a record, so that    *)
(* their callers compose them as the code does.                            *)
(*                                                                         *)
(* Specifications:                                                         *)
(*   StreamSpec  any sequence of connect/disconnect/send calls on one      *)
(*               EntertainmentStream, with the subprocess exiting at will  *)
(*   SeqSpec     concurrent senders stepping through send_colors*          *)
(*   FrameSpec   the frame encoders applied to bounded inputs              *)
(*   SyncSpec    SyncController with its loop threads, the capture         *)
(*               pipeline and the stream (FairSyncSpec: with fair threads) *)
(***************************************************************************)
EXTENDS Integers, Sequences, FiniteSets, TLC

VARIABLES
    es,         \* the EntertainmentStream object and the bridge's view of its claim
    last,       \* StreamSpec: the last API call, its inputs, effects and result
    spc,        \* SeqSpec: position of each sender inside send_colors*
    lock,       \* SeqSpec: holder of EntertainmentStream._lock (0: free)
    hdrseq,     \* SeqSpec: the sequence byte each sender put in its header
    framesSent, \* SeqSpec: number of frames written to the DTLS session
    lastSeq,    \* SeqSpec: sequence byte of the frame written last (-1: none)
    prevSeq,    \* SeqSpec: sequence byte of the frame written before it (-1: none)
    fin,        \* FrameSpec: the inputs of the last build
    frame,      \* FrameSpec: the bytes it built
    running,    \* SyncController.running
    thread,     \* SyncController.thread (0: None, else the loop thread's number)
    pc,         \* position of each loop thread
    mainPc,     \* position of the caller inside SyncController.stop()
    cap,        \* the ScreenCapture object
    queue,      \* SyncController.queue, the status events not yet read
    zmap,       \* SyncController._zone_channel_map: "empty" or "built"
    heap,       \* the stats dict objects, by object id
    statsRef,   \* SyncController._stats: the id of the current stats dict
    stage,      \* the last_stage_times dict objects, by object id
    slock,      \* SyncController.lock: "free", "loop" or "main"
    reg,        \* the loop thread's operands of a stats update in progress
    snap,       \* the last value get_stats() returned, and what it held then
    layout,     \* zone_processor.rows and zone_processor.cols
    chans,      \* EntertainmentStream._channels, in the dict's order
    zcm,        \* SyncController._zone_channel_map, zone id to channel id
    bpos,       \* start() inside _build_zone_channel_mapping: zones assigned so far (-1: not inside)
    seen,       \* the zone ids the last _update_lights found in the map
    hue,        \* MixSpec: the hue_colors of one tick, in the dict's order
    sent,       \* MixSpec: the channel_colors _update_lights sent for them
    lmap,       \* hue_sync: ZoneMapping.mapping, zone id to the lights of the zone
    binfo,      \* hue_sync: HueBridge.light_info of the lights the bridge has now
    updated,    \* hue_sync: the lights the last _update_lights addressed
    zkeys,      \* the last process_image call: the processor's rows and cols, the keys returned
    fps,        \* settings.sync.fps
    fpsTarget,  \* the fps_target of the loop's last iteration (0: none yet)
    det,        \* the BlackBarDetector: _frame_counter, _current_crop, _target_crop, _image_size, smooth_factor, detection_rate
    shot,       \* the last process() call: the frame, and the box of the image it returned
    bars,       \* the last _detect_bars call: the frame size and the dark runs _find_black_region measured
    prevc,      \* ColorAnalyzer.previous_colors: zone -> colour
    goal,       \* hue_colors, the argument of the last apply_smoothing call
    sfac,       \* settings.smoothing_factor in tenths
    tone,       \* ColorAnalyzer.brightness_scale (halves) and gamma
    since,      \* ticks of the loop since the last start()
    buf,        \* ScreenCapture._latest_frame and the number of frames published
    call,       \* the capture() call of the loop thread
    mm,         \* ModeManager: mode, pending flag, GLib timers, reading controller
    note,       \* what the handlers of the ModeManager did so far
    tally,      \* the frame_count and errors counters of _stats, and the iterations whose counter statement has run
    regs,       \* per loop thread: the counter value its += has loaded
    lw,         \* LightUpdateWorker: _latest_updates, _stop_event, _thread, each worker thread's position and locals, _stats
    lwh         \* what was enqueued and handed to the bridge so far

streamVars == <<last>>
seqVars == <<spc, lock, hdrseq, framesSent, lastSeq, prevSeq>>
frameVars == <<fin, frame>>
syncVars == <<running, thread, pc, mainPc, cap, queue, zmap>>
statsVars == <<heap, statsRef, stage, slock, reg, snap>>
mapVars == <<layout, chans, zcm, bpos, seen>>
mixVars == <<hue, sent>>
hsVars == <<lmap, binfo, updated>>
zoneVars == <<zkeys>>
fpsVars == <<fps, fpsTarget>>
detVars == <<det, shot, bars>>
colVars == <<prevc, goal, sfac>>
toneVars == <<tone, since>>
slotVars == <<buf, call>>
modeVars == <<mm, note>>
countVars == <<tally, regs>>
workerVars == <<lw, lwh>>
lateVars == <<zoneVars, fpsVars, detVars, colVars, toneVars, slotVars, modeVars, countVars, workerVars>>
zoneRest == <<fpsVars, detVars, colVars, toneVars, slotVars, modeVars, countVars, workerVars>>  \* rest
fpsRest == <<zoneVars, detVars, colVars, toneVars, slotVars, modeVars, countVars, workerVars>>  \* rest
detRest == <<zoneVars, fpsVars, colVars, toneVars, slotVars, modeVars, countVars, workerVars>>  \* rest
colRest == <<zoneVars, fpsVars, detVars, toneVars, slotVars, modeVars, countVars, workerVars>>  \* rest
toneRest == <<zoneVars, fpsVars, detVars, colVars, slotVars, modeVars, countVars, workerVars>>  \* rest
slotRest == <<zoneVars, fpsVars, detVars, colVars, toneVars, modeVars, countVars, workerVars>>  \* rest
modeRest == <<zoneVars, fpsVars, detVars, colVars, toneVars, slotVars, countVars, workerVars>>  \* rest
countRest == <<zoneVars, fpsVars, detVars, colVars, toneVars, slotVars, modeVars, workerVars>>  \* rest
workerRest == <<zoneVars, fpsVars, detVars, colVars, toneVars, slotVars, modeVars, countVars>>  \* rest
moreVars == <<statsVars, mapVars, mixVars, hsVars, lateVars>>
vars == <<es, last, spc, lock, hdrseq, framesSent, lastSeq, prevSeq, fin, frame,
          running, thread, pc, mainPc, cap, queue, zmap,
          heap, statsRef, stage, slock, reg, snap,
          layout, chans, zcm, bpos, seen, hue, sent, lmap, binfo, updated,
          zkeys,
          fps, fpsTarget,
          det, shot,
          bars,
          prevc, goal, sfac,
          tone, since,
          buf, call,
          mm, note,
          tally, regs,
          lw, lwh>>

Min2(a, b) == IF a < b THEN a ELSE b
Max2(a, b) == IF a > b THEN a ELSE b

(***************************************************************************)
(* EntertainmentStream                                                     *)
(***************************************************************************)

\* EntertainmentStream.__init__, and the zone unclaimed on the bridge.
\*   proc: _openssl_proc is None ("none"), a running subprocess ("alive") or
\*         a subprocess that has exited, poll() is not None ("dead")
\*   claimed: a REST activation of this stream succeeded and no REST
\*         deactivation was issued since
\*   sendFailed: a send marked the session disconnected and no connect()
\*         succeeded since (history)
StreamInit ==
    [connected |-> FALSE, proc |-> "none", sequence |-> 0,
     claimed |-> FALSE, sendFailed |-> FALSE]

ProcStates == {"none", "alive", "dead"}

is_connected(s) ==
    IF s.proc # "none"
    THEN s.connected /\ s.proc = "alive"
    ELSE s.connected

\* bridge.activate_entertainment_streaming answers 200 (act = "ok") or not.
activate_streaming(s, act) ==
    [es |-> IF act = "ok" THEN [s EXCEPT !.claimed = TRUE] ELSE s,
     ops |-> <<"activate">>,
     ret |-> act = "ok"]

deactivate_streaming(s) ==
    [es |-> [s EXCEPT !.claimed = FALSE], ops |-> <<"deactivate">>]

\* Popen and _wait_for_handshake. hs = "ok": the subprocess is still running
\* after both waits; "exited": it exited during a wait (_openssl_proc keeps
\* the dead subprocess); "popen_error": Popen raised, _openssl_proc is as it was.
establish_dtls_connection(s, hs) ==
    [es |-> CASE hs = "ok" -> [s EXCEPT !.proc = "alive"]
              [] hs = "exited" -> [s EXCEPT !.proc = "dead"]
              [] OTHER -> s,
     ops |-> <<"handshake">>,
     ret |-> hs = "ok"]

CfgOutcomes == {"ok", "none", "raise"}
ActOutcomes == {"ok", "fail"}
HsOutcomes == {"ok", "exited", "popen_error"}

MutConnectNoRollback(s, cfg, act, hs) ==
    IF cfg # "ok"
    THEN [es |-> s, ops |-> <<"get_config">>, ret |-> FALSE]
    ELSE LET a == activate_streaming(s, act) IN
         IF ~a.ret
         THEN [es |-> a.es, ops |-> <<"get_config">> \o a.ops, ret |-> FALSE]
         ELSE LET h == establish_dtls_connection(a.es, hs) IN
              IF ~h.ret
              THEN [es |-> h.es, ops |-> <<"get_config">> \o a.ops \o h.ops,
                    ret |-> FALSE]
              ELSE [es |-> [h.es EXCEPT !.connected = TRUE, !.sendFailed = FALSE],
                    ops |-> <<"get_config">> \o a.ops \o h.ops,
                    ret |-> TRUE]

\* cfg = "none": the bridge returns no configuration; "raise": fetching or
\* parsing it raises, which the outer except turns into False.
connect(s, cfg, act, hs) ==
    IF cfg # "ok"
    THEN [es |-> s, ops |-> <<"get_config">>, ret |-> FALSE]
    ELSE LET a == activate_streaming(s, act) IN
         IF ~a.ret
         THEN [es |-> a.es, ops |-> <<"get_config">> \o a.ops, ret |-> FALSE]
         ELSE LET h == establish_dtls_connection(a.es, hs) IN
              IF ~h.ret
              THEN LET d == deactivate_streaming(h.es) IN
                   [es |-> d.es,
                    ops |-> <<"get_config">> \o a.ops \o h.ops \o d.ops,
                    ret |-> FALSE]
              ELSE [es |-> [h.es EXCEPT !.connected = TRUE, !.sendFailed = FALSE],
                    ops |-> <<"get_config">> \o a.ops \o h.ops,
                    ret |-> TRUE]

\* stdin.close, terminate, wait(2) and kill on failure; always ends with
\* _openssl_proc = None.
cleanup_openssl(s) ==
    IF s.proc = "none"
    THEN [es |-> s, ops |-> <<>>]
    ELSE [es |-> [s EXCEPT !.proc = "none"], ops |-> <<"terminate">>]

MutDisconnectSkipsDead(s) ==
    LET c == cleanup_openssl([s EXCEPT !.connected = FALSE]) IN
    IF is_connected(s)
    THEN LET d == deactivate_streaming(c.es) IN
         [es |-> d.es, ops |-> c.ops \o d.ops]
    ELSE [es |-> c.es, ops |-> c.ops]

disconnect(s) ==
    LET c == cleanup_openssl([s EXCEPT !.connected = FALSE])
        d == deactivate_streaming(c.es)
    IN  [es |-> d.es, ops |-> c.ops \o d.ops]

WriteOutcomes == {"ok", "fail"}

MutSendKeepsConnected(s, w) ==
    IF ~is_connected(s)
    THEN [es |-> s, ops |-> <<>>]
    ELSE IF s.proc = "none"
    THEN [es |-> [s EXCEPT !.connected = FALSE, !.sendFailed = TRUE],
          ops |-> <<>>]
    ELSE IF w = "ok"
    THEN [es |-> [s EXCEPT !.sequence = (s.sequence + 1) % 256],
          ops |-> <<"write">>]
    ELSE [es |-> [s EXCEPT !.sequence = (s.sequence + 1) % 256],
          ops |-> <<"write_failed">>]

\* The body shared by send_colors and send_colors_xy: the is_connected()
\* test, then under _lock the build, the write and the increment, any
\* exception marking the session disconnected. w is what the write to the
\* subprocess's stdin does; with no subprocess (and no socket)
\* _send_dtls_message raises before writing.
send_message(s, w) ==
    IF ~is_connected(s)
    THEN [es |-> s, ops |-> <<>>]
    ELSE IF s.proc = "none"
    THEN [es |-> [s EXCEPT !.connected = FALSE, !.sendFailed = TRUE],
          ops |-> <<>>]
    ELSE IF w = "ok"
    THEN [es |-> [s EXCEPT !.sequence = (s.sequence + 1) % 256],
          ops |-> <<"write">>]
    ELSE [es |-> [s EXCEPT !.connected = FALSE, !.sendFailed = TRUE],
          ops |-> <<"write_failed">>]

send_colors(s, w) == send_message(s, w)

send_colors_xy(s, w) == send_message(s, w)


(***************************************************************************)
(* StreamSpec: the public operations of one EntertainmentStream called in  *)
(* any order, as AppContext.start_entertainment, ModeManager and the sync  *)
(* loop call them, while the DTLS subprocess may exit at any time.         *)
(***************************************************************************)

\* Threads that may be inside send_colors / send_colors_xy at the same time.
NSenders == 2
Senders == 1..NSenders

\* Frames written in one behaviour of SeqSpec: more than one round of the
\* 8-bit sequence counter.
MaxFrames == 258

NoInput == [cfg |-> "-", act |-> "-", hs |-> "-", w |-> "-"]

LastInit ==
    [op |-> "init", pre |-> StreamInit, in |-> NoInput, ops |-> <<>>, ret |-> FALSE]

SeqIdle ==
    /\ spc = [t \in Senders |-> "idle"]
    /\ lock = 0
    /\ hdrseq = [t \in Senders |-> 0]
    /\ framesSent = 0
    /\ lastSeq = -1
    /\ prevSeq = -1

FrameIdle ==
    /\ fin = [kind |-> "none"]
    /\ frame = <<>>

\* Loop threads spawned in one behaviour.
MaxThreads == 2
Threads == 1..MaxThreads

\* Frames the sync loop writes in one behaviour of SyncSpec.
MaxSyncFrames == 1

\* Capacity of the status queue (queue.Queue(maxsize=100) in the code).
QueueCap == 1

\* ScreenCapture.__init__
\*   handle, node: _portal_session_handle, _portal_node_id are set
\*   pipeline: _pipeline is set;  prun: _pipeline_running
\*   frame: _latest_frame is set
CaptureInit ==
    [handle |-> FALSE, node |-> FALSE, pipeline |-> FALSE, prun |-> FALSE,
     frame |-> FALSE]

\* SyncController.__init__
SyncIdle ==
    /\ running = FALSE
    /\ thread = 0
    /\ pc = [t \in Threads |-> "unborn"]
    /\ mainPc = "idle"
    /\ cap = CaptureInit
    /\ queue = <<>>
    /\ zmap = "empty"

\* Stats dict objects and last_stage_times dict objects of one behaviour,
\* and the iterations counted in one stats dict.
MaxDicts == 3
MaxStages == 2
MaxCount == 2

\* The dict of SyncController.__init__ and reset_stats(); lst is the id of
\* the dict under 'last_stage_times', 0 while the key is absent.
NewStats == [fps |-> 0, frame_count |-> 0, errors |-> 0, lst |-> 0]

NoSnap == [ref |-> 0, val |-> NewStats, times |-> 0]

StatsIdle ==
    /\ heap = <<NewStats>>
    /\ statsRef = 1
    /\ stage = <<>>
    /\ slock = "free"
    /\ reg = [r |-> 0, v |-> 0]
    /\ snap = NoSnap

\* A zone id "{edge}_{index}" after zone_id.split('_') and int().
Zone(e, i) == [edge |-> e, idx |-> i]

\* SyncController.__init__: self._zone_channel_map = {}
EmptyMap == [z \in {} |-> 0]

MapIdle ==
    /\ layout = [rows |-> 1, cols |-> 1]
    /\ chans = <<>>
    /\ zcm = EmptyMap
    /\ bpos = -1
    /\ seen = {}

MixIdle ==
    /\ hue = <<>>
    /\ sent = <<>>

\* ZoneMapping._set_default_mapping: ten zones without lights
DefaultMapping ==
    [z \in {Zone("top", 0), Zone("top", 1), Zone("top", 2),
            Zone("bottom", 0), Zone("bottom", 1), Zone("bottom", 2),
            Zone("left", 0), Zone("left", 1), Zone("right", 0), Zone("right", 1)}
        |-> {}]

HueSyncIdle ==
    /\ lmap = DefaultMapping
    /\ binfo = EmptyMap
    /\ updated = {}

\* ZoneProcessor before its first frame
ZoneIdle == zkeys = [rows |-> 0, cols |-> 0, keys |-> {}]

\* SyncSettings as constructed (fps: int = 15), no loop iteration yet
FpsIdle ==
    /\ fps = 15
    /\ fpsTarget = 0

\* CropRegion(left, top, right, bottom); CropRegion() is all zeros
CropRegion(l, t, r, b) == [left |-> l, top |-> t, right |-> r, bottom |-> b]

\* BlackBarDetector.__init__: smooth_factor in tenths (0.1 .. 1.0), the
\* detection rate in frames; size <<0, 0>> is _image_size = None
DetectorInit(factor, rate) ==
    [counter |-> 0, cur |-> CropRegion(0, 0, 0, 0), tgt |-> CropRegion(0, 0, 0, 0),
     size |-> <<0, 0>>, factor |-> Max2(1, Min2(10, factor)),
     rate |-> Max2(1, Min2(120, rate))]

\* no process() call yet
NoShot == [size |-> <<0, 0>>, box |-> CropRegion(0, 0, 0, 0)]

NoBars == [size |-> <<0, 0>>, left |-> 0, right |-> 0, top |-> 0, bottom |-> 0]

\* BlackBarDetector.__init__ with the default settings, no frame processed yet
DetIdle ==
    /\ det = DetectorInit(3, 1)
    /\ shot = NoShot
    /\ bars = NoBars

\* ColorAnalyzer.__init__ and the default settings: nothing smoothed yet
ColorIdle ==
    /\ prevc = EmptyMap
    /\ goal = <<>>
    /\ sfac = 3

\* ColorAnalyzer(brightness_scale, gamma) with the default settings, no tick yet
ToneIdle ==
    /\ tone = [brightness_scale |-> 2, gamma |-> 1]
    /\ since = 0

\* The capture() call: where it is, the frame it read and the number of
\* frames published when it read, whether a frame was there when it began,
\* whether it went through the wait loop, and the frames the last two
\* calls returned (0: none).
NoCall ==
    [pc |-> "idle", frame |-> 0, newest |-> 0, had |-> FALSE, waited |-> FALSE,
     ret |-> 0, prev |-> 0]

\* ScreenCapture.__init__: no frame, no capture() call yet
SlotIdle ==
    /\ buf = [slot |-> 0, pub |-> 0]
    /\ call = NoCall

\* ModeManager.__init__ with reading_settings.auto_activate as given.
\*   timers: the GLib timeouts of switch_to_reading that have not fired yet
\*   active: ReadingModeController._state.is_active
\*   rest: whether the last reading.activate() ran apart from video mode or
\*         while the sync ran or the stream was connected
ModeManagerInit(auto_activate) ==
    [current_mode |-> "OFF", pending |-> FALSE, timers |-> 0, active |-> FALSE,
     auto |-> auto_activate, rest |-> "never"]

\* Nothing was asked of the ModeManager yet.
\*   op: the handler that ran last
\*   want: switch_to_reading was called, no other request came after it and
\*         the bridge has not refused the light update
\*   void: the GLib timeouts outstanding when turn_off cleared the pending flag
\*   late: such a timeout called reading.activate() when it fired
NoNote == [op |-> "init", want |-> FALSE, void |-> 0, late |-> FALSE]

\* ModeManager.__init__
ModeIdle ==
    /\ mm = ModeManagerInit(FALSE)
    /\ note = NoNote

\* _stats as __init__ leaves its counters, no iteration counted
NoTally == [frame_count |-> 0, errors |-> 0, done |-> 0]

\* The threads start() of the LightUpdateWorker can have spawned: the one
\* _thread refers to and one that outlived the join of stop().
Workers == {1, 2}

\* The lights payloads are enqueued for.
WorkerLights == {"a", "b"}

\* LightUpdateWorker.__init__: no updates, the event clear, no thread.
\* caller is the position of the thread that calls start() and stop().
WorkerInit ==
    [latest_updates |-> EmptyMap,
     stop |-> FALSE,
     thread |-> 0,
     caller |-> "idle",
     pc |-> [w \in Workers |-> "unborn"],
     updates |-> [w \in Workers |-> EmptyMap],
     sent |-> [w \in Workers |-> 0],
     stats |-> [last_flush_count |-> 0, flushs |-> 0]]

\* Nothing was enqueued yet. Payloads are numbered in the order of the
\* enqueue calls.
\*   serial: the number of the last payload enqueued
\*   latest: per light, the payload enqueued last (0: none)
\*   calls: per worker and light, the bridge calls of the flush in progress
\*   handed: per light, the payloads handed to the bridge
\*   raced: a payload was enqueued for a light while a flush was sending an
\*          earlier payload of that light
NoHistory ==
    [serial |-> 0,
     latest |-> [l \in WorkerLights |-> 0],
     calls |-> [w \in Workers |-> [l \in WorkerLights |-> 0]],
     handed |-> [l \in WorkerLights |-> {}],
     raced |-> FALSE]

\* No iteration was counted yet.
CountIdle ==
    /\ tally = NoTally
    /\ regs = [t \in Threads |-> 0]

\* A LightUpdateWorker right after construction.
WorkerIdle ==
    /\ lw = WorkerInit
    /\ lwh = NoHistory

LateIdle == ZoneIdle /\ FpsIdle /\ DetIdle /\ ColorIdle /\ ToneIdle /\ SlotIdle /\ ModeIdle /\ CountIdle /\ WorkerIdle

MoreIdle == StatsIdle /\ MapIdle /\ MixIdle /\ HueSyncIdle /\ LateIdle

StreamSpecInit ==
    /\ es = StreamInit
    /\ last = LastInit
    /\ SeqIdle
    /\ FrameIdle
    /\ SyncIdle
    /\ MoreIdle

Connect ==
    \E cfg \in CfgOutcomes, act \in ActOutcomes, hs \in HsOutcomes :
        LET r == connect(es, cfg, act, hs) IN
        /\ es' = r.es
        /\ last' = [op |-> "connect", pre |-> es,
                    in |-> [cfg |-> cfg, act |-> act, hs |-> hs, w |-> "-"],
                    ops |-> r.ops, ret |-> r.ret]
        /\ UNCHANGED <<seqVars, frameVars, moreVars, syncVars>>

Disconnect ==
    LET r == disconnect(es) IN
    /\ es' = r.es
    /\ last' = [op |-> "disconnect", pre |-> es, in |-> NoInput,
                ops |-> r.ops, ret |-> FALSE]
    /\ UNCHANGED <<seqVars, frameVars, moreVars, syncVars>>

SendColors ==
    \E w \in WriteOutcomes :
        LET r == send_colors(es, w) IN
        /\ es' = r.es
        /\ last' = [op |-> "send_colors", pre |-> es,
                    in |-> [NoInput EXCEPT !.w = w], ops |-> r.ops, ret |-> FALSE]
        /\ UNCHANGED <<seqVars, frameVars, moreVars, syncVars>>

SendColorsXY ==
    \E w \in WriteOutcomes :
        LET r == send_colors_xy(es, w) IN
        /\ es' = r.es
        /\ last' = [op |-> "send_colors_xy", pre |-> es,
                    in |-> [NoInput EXCEPT !.w = w], ops |-> r.ops, ret |-> FALSE]
        /\ UNCHANGED <<seqVars, frameVars, moreVars, syncVars>>

\* The openssl subprocess exits on its own (bridge closed the session,
\* network loss): poll() is not None from now on.
ProcExit ==
    /\ es.proc = "alive"
    /\ es' = [es EXCEPT !.proc = "dead"]
    /\ UNCHANGED <<last, seqVars, frameVars, moreVars, syncVars>>

StreamNext ==
    \/ Connect
    \/ Disconnect
    \/ SendColors
    \/ SendColorsXY
    \/ ProcExit

StreamSpec == StreamSpecInit /\ [][StreamNext]_vars

Sends == {"send_colors", "send_colors_xy"}

\* a occurs in ops, and every b in ops comes after it
Precedes(ops, a, b) ==
    \A j \in DOMAIN ops : ops[j] = b => \E i \in DOMAIN ops : i < j /\ ops[i] = a

Count(ops, a) == Cardinality({i \in DOMAIN ops : ops[i] = a})

\* C1: disconnect() first tears the encrypted session down (when there is a
\* subprocess) and then issues exactly one REST deactivation, as its last
\* effect, whatever the state of the session it is called in: connected,
\* subprocess exited, send failed, or no subprocess at all.
C1_DisconnectTearsDownThenDeactivates ==
    last.op = "disconnect" =>
        /\ last.ops = (IF last.pre.proc = "none"
                       THEN <<"deactivate">>
                       ELSE <<"terminate", "deactivate">>)
        /\ Count(last.ops, "deactivate") = 1
        /\ Precedes(last.ops, "terminate", "deactivate") \/ last.pre.proc = "none"

C1_Witness ==
    /\ last.op = "disconnect"
    /\ last.pre.proc = "dead"
    /\ last.pre.claimed
    /\ ~is_connected(last.pre)
    /\ last.ops = <<"terminate", "deactivate">>
    /\ ~es.claimed

\* C2: connect() activates over REST before the handshake; a failed
\* activation means no handshake and False; a handshake that fails after a
\* successful activation is followed by the REST deactivation, and False.
C2_ConnectActivatesThenHandshakes ==
    last.op = "connect" =>
        /\ Precedes(last.ops, "activate", "handshake")
        /\ (last.in.cfg = "ok" /\ last.in.act = "fail") =>
                (Count(last.ops, "handshake") = 0 /\ last.ret = FALSE)
        /\ (last.in.cfg = "ok" /\ last.in.act = "ok" /\ last.in.hs # "ok") =>
                /\ last.ret = FALSE
                /\ Count(last.ops, "handshake") = 1
                /\ Count(last.ops, "deactivate") = 1
                /\ Precedes(last.ops, "handshake", "deactivate")
                /\ last.ops[Len(last.ops)] = "deactivate"

C2_Witness ==
    /\ last.op = "connect"
    /\ last.in = [cfg |-> "ok", act |-> "ok", hs |-> "exited", w |-> "-"]
    /\ last.ret = FALSE
    /\ last.ops = <<"get_config", "activate", "handshake", "deactivate">>

\* C3: after connect() returned False, whatever the state it was called in,
\* is_connected() is False and the zone is not left claimed.
C3_FailedConnectLeavesNothingActive ==
    (last.op = "connect" /\ last.ret = FALSE) =>
        (~is_connected(es) /\ ~es.claimed)

\* C4: a send whose write fails marks the session disconnected, leaves the
\* sequence counter where it was and attempts the write once; while no
\* connect() has succeeded since, is_connected() stays False and a send
\* call writes nothing.
C4_FailedSendDisconnects ==
    /\ (last.op \in Sends /\ Count(last.ops, "write_failed") > 0) =>
            /\ last.ops = <<"write_failed">>
            /\ is_connected(last.pre)
            /\ ~es.connected
            /\ ~is_connected(es)
            /\ es.sequence = last.pre.sequence
    /\ es.sendFailed => ~is_connected(es)
    /\ (last.op \in Sends /\ last.pre.sendFailed) => last.ops = <<>>

C4_Witness ==
    /\ last.op = "send_colors_xy"
    /\ last.in.w = "fail"
    /\ last.ops = <<"write_failed">>
    /\ last.pre.sequence > 0
    /\ es.sequence = last.pre.sequence
    /\ ~is_connected(es)


(***************************************************************************)
(* SeqSpec: send_colors / send_colors_xy step by step, for several callers *)
(* at once (a loop thread that outlived stop() and its successor), while   *)
(* the caller of connect()/disconnect() and the subprocess go on.          *)
(***************************************************************************)

SeqSpecInit ==
    /\ es = StreamInit
    /\ last = LastInit
    /\ SeqIdle
    /\ FrameIdle
    /\ SyncIdle
    /\ MoreIdle

MutLockNeverBlocks(l) == TRUE

\* `with self._lock`: a threading.Lock is taken only when nobody holds it.
lock_free(l) == l = 0

\* if not self.is_connected(): return
SendEnter(t) ==
    /\ spc[t] = "idle"
    /\ is_connected(es)
    /\ spc' = [spc EXCEPT ![t] = "lock"]
    /\ UNCHANGED <<es, last, lock, hdrseq, framesSent, lastSeq, prevSeq,
                   frameVars, moreVars, syncVars>>

SendAcquire(t) ==
    /\ spc[t] = "lock"
    /\ lock_free(lock)
    /\ lock' = t
    /\ spc' = [spc EXCEPT ![t] = "build"]
    /\ UNCHANGED <<es, last, hdrseq, framesSent, lastSeq, prevSeq,
                   frameVars, moreVars, syncVars>>

\* _build_rgb_message / _build_xy_message: the header takes self._sequence.
SendBuild(t) ==
    /\ spc[t] = "build"
    /\ hdrseq' = [hdrseq EXCEPT ![t] = es.sequence]
    /\ spc' = [spc EXCEPT ![t] = "write"]
    /\ UNCHANGED <<es, last, lock, framesSent, lastSeq, prevSeq,
                   frameVars, moreVars, syncVars>>

\* _send_dtls_message: the frame reaches the session, or the write raises
\* (always so without a subprocess, or with one that has exited) and the
\* except clause clears _connected.
SendWrite(t) ==
    /\ spc[t] = "write"
    /\ \E w \in WriteOutcomes :
        IF w = "ok" /\ es.proc = "alive"
        THEN /\ framesSent < MaxFrames
             /\ framesSent' = framesSent + 1
             /\ prevSeq' = lastSeq
             /\ lastSeq' = hdrseq[t]
             /\ spc' = [spc EXCEPT ![t] = "incr"]
             /\ UNCHANGED es
        ELSE /\ es' = [es EXCEPT !.connected = FALSE, !.sendFailed = TRUE]
             /\ spc' = [spc EXCEPT ![t] = "release"]
             /\ UNCHANGED <<framesSent, lastSeq, prevSeq>>
    /\ UNCHANGED <<last, lock, hdrseq, frameVars, moreVars, syncVars>>

\* self._sequence = (self._sequence + 1) % 256
SendIncr(t) ==
    /\ spc[t] = "incr"
    /\ es' = [es EXCEPT !.sequence = (es.sequence + 1) % 256]
    /\ spc' = [spc EXCEPT ![t] = "release"]
    /\ UNCHANGED <<last, lock, hdrseq, framesSent, lastSeq, prevSeq,
                   frameVars, moreVars, syncVars>>

\* leaving the with block
SendRelease(t) ==
    /\ spc[t] = "release"
    /\ lock' = 0
    /\ hdrseq' = [hdrseq EXCEPT ![t] = 0]
    /\ spc' = [spc EXCEPT ![t] = "idle"]
    /\ UNCHANGED <<es, last, framesSent, lastSeq, prevSeq, frameVars, moreVars, syncVars>>

\* connect() succeeding, called from the GUI thread.
SeqConnect ==
    /\ es' = connect(es, "ok", "ok", "ok").es
    /\ UNCHANGED <<last, seqVars, frameVars, moreVars, syncVars>>

SeqDisconnect ==
    /\ es' = disconnect(es).es
    /\ UNCHANGED <<last, seqVars, frameVars, moreVars, syncVars>>

SeqNext ==
    \/ \E t \in Senders :
        \/ SendEnter(t)
        \/ SendAcquire(t)
        \/ SendBuild(t)
        \/ SendWrite(t)
        \/ SendIncr(t)
        \/ SendRelease(t)
    \/ SeqConnect
    \/ SeqDisconnect
    \/ ProcExit

SeqSpec == SeqSpecInit /\ [][SeqNext]_vars

\* C6: the first frame written carries sequence 0, every frame written
\* carries the sequence of the frame before it plus one modulo 256, whoever
\* wrote it, and once a written frame has been counted the counter equals
\* the number of frames written modulo 256: 0 again after 256 frames.
C6_SequenceCountsFramesMod256 ==
    /\ framesSent = 0 => lastSeq = -1
    /\ framesSent > 0 => lastSeq = (framesSent - 1) % 256
    /\ prevSeq # -1 => lastSeq = (prevSeq + 1) % 256
    /\ (\A t \in Senders : spc[t] # "incr") => es.sequence = framesSent % 256
    /\ es.sequence \in 0..255

C6_Witness ==
    /\ framesSent = 257
    /\ prevSeq = 255
    /\ lastSeq = 0
    /\ spc[1] = "release"
    /\ spc[2] = "lock"
    /\ es.sequence = 1


(***************************************************************************)
(* HueStream frames. A byte is a number in 0..255 and a frame a sequence   *)
(* of bytes; byte offset k of the wire format is element k + 1.  A float   *)
(* colour component v is the fraction n / GridDen, held as its numerator   *)
(* n (any integer: components outside [0, 1] are inputs too).  A string is *)
(* the sequence of its code points.                                        *)
(***************************************************************************)

\* Denominator of the grid of colour components.
GridDen == 7

HEADER == <<72, 117, 101, 83, 116, 114, 101, 97, 109>>
VERSION_MAJOR == 2
VERSION_MINOR == 0
COLORSPACE_RGB == 0
COLORSPACE_XY == 1
CHANNEL_DATA_SIZE == 7
MAX_16BIT == 65535
BRIGHTNESS_SCALE == 257


\* str.encode('ascii'): the code points themselves, or UnicodeEncodeError.
ascii_encodable(str) == \A i \in DOMAIN str : str[i] < 128
encode_ascii(str) == [i \in DOMAIN str |-> str[i]]

MutHeaderSequenceAfterReserved(sequence, colorspace, config_id) ==
    HEADER \o <<VERSION_MAJOR, VERSION_MINOR>> \o <<0, 0>> \o <<sequence>>
           \o <<colorspace>> \o <<0>> \o encode_ascii(config_id)

build_message_header(sequence, colorspace, config_id) ==
    HEADER \o <<VERSION_MAJOR, VERSION_MINOR>> \o <<sequence>> \o <<0, 0>>
           \o <<colorspace>> \o <<0>> \o encode_ascii(config_id)

MutColorNoClamp(n) ==
    LET scaled == (n * MAX_16BIT) \div GridDen
    IN  <<(scaled \div 256) % 256, scaled % 256>>

\* int(max(0, min(1, value)) * 65535), high byte first. int() truncates,
\* which on the clamped, non-negative product is the floor.
color_to_bytes(n) ==
    LET clamped == Max2(0, Min2(GridDen, n))
        scaled == (clamped * MAX_16BIT) \div GridDen
    IN  <<(scaled \div 256) % 256, scaled % 256>>

brightness_to_bytes(brightness) ==
    LET scaled == Max2(0, Min2(254, brightness)) * BRIGHTNESS_SCALE
    IN  <<(scaled \div 256) % 256, scaled % 256>>

\* sorted(keys): ascending
RECURSIVE sorted(_)
sorted(S) ==
    IF S = {} THEN <<>>
    ELSE LET m == CHOOSE x \in S : \A y \in S : x <= y
         IN  <<m>> \o sorted(S \ {m})

extract_rgb(colors, channel_id) ==
    IF channel_id \in DOMAIN colors
    THEN <<colors[channel_id][1], colors[channel_id][2], colors[channel_id][3]>>
    ELSE <<0, 0, 0>>

extract_xy_brightness(colors, channel_id) ==
    IF channel_id \in DOMAIN colors
    THEN colors[channel_id]
    ELSE <<<<0, 0>>, 0>>

RECURSIVE rgb_records(_, _)
rgb_records(ids, colors) ==
    IF ids = <<>> THEN <<>>
    ELSE LET c == extract_rgb(colors, Head(ids))
         IN  <<Head(ids)>> \o color_to_bytes(c[1]) \o color_to_bytes(c[2])
                 \o color_to_bytes(c[3]) \o rgb_records(Tail(ids), colors)

build_rgb_channel_data(channels, colors) == rgb_records(sorted(channels), colors)

RECURSIVE xy_records(_, _)
xy_records(ids, colors) ==
    IF ids = <<>> THEN <<>>
    ELSE LET c == extract_xy_brightness(colors, Head(ids))
         IN  <<Head(ids)>> \o color_to_bytes(c[1][1]) \o color_to_bytes(c[1][2])
                 \o brightness_to_bytes(c[2]) \o xy_records(Tail(ids), colors)

MutDataFromColorKeys(channels, colors) == xy_records(sorted(DOMAIN colors), colors)

build_xy_channel_data(channels, colors) == xy_records(sorted(channels), colors)

build_rgb_message(sequence, config_id, channels, colors) ==
    build_message_header(sequence, COLORSPACE_RGB, config_id)
        \o build_rgb_channel_data(channels, colors)

build_xy_message(sequence, config_id, channels, colors) ==
    build_message_header(sequence, COLORSPACE_XY, config_id)
        \o build_xy_channel_data(channels, colors)


(***************************************************************************)
(* FrameSpec: _build_rgb_message and _build_xy_message applied to a        *)
(* sequence value, a zone id, a set of known channels and a colour dict.   *)
(***************************************************************************)

\* "xxxxxxxx-xxxx-xxxx-xxxx-xxxxxxxxxxxx" with every x the character c
Uuid(c) == [i \in 1..36 |-> IF i \in {9, 14, 19, 24} THEN 45 ELSE c]

ZoneIds ==
    { Uuid(49),                                      \* 11111111-1111-...
      Uuid(102),                                     \* ffffffff-ffff-...
      [i \in 1..36 |-> IF i \in {9, 14, 19, 24} THEN 45 ELSE 48 + (i % 10)],
      [Uuid(49) EXCEPT ![5] = 233],                  \* a non-ASCII character
      <<122, 49>> }                                  \* not a UUID: "z1"

SequenceValues == {0, 1, 128, 255}

\* channel ids an entertainment configuration may hold
ChannelUniverse == {0, 2, 5}

\* channel ids a caller may give colours for; 1 is never a known channel
ColorKeys == {0, 1, 5}

\* ((x, y), brightness), x and y as numerators over GridDen
XYColors ==
    { <<<<3, 4>>, 127>>,
      <<<<-2, 9>>, 300>>,
      <<<<7, 1>>, -5>>,
      <<<<8, 0>>, 254>>,
      <<<<1, 6>>, 255>> }

\* (r, g, b, _), numerators over GridDen
RGBColors ==
    { <<7, 0, 3, 0>>,
      <<-1, 9, 4, 0>>,
      <<2, 5, 6, 1>> }

Dicts(keys, values) == UNION {[d -> values] : d \in SUBSET keys}

FrameInputs(kind, palette) ==
    [kind : {kind}, sequence : SequenceValues, config_id : ZoneIds,
     channels : SUBSET ChannelUniverse, colors : Dicts(ColorKeys, palette),
     built : {FALSE}, raised : {FALSE}]

\* The inputs are drawn at the start; the build is then applied to them.
FrameSpecInit ==
    /\ es = StreamInit
    /\ last = LastInit
    /\ SeqIdle
    /\ fin \in FrameInputs("xy", XYColors) \cup FrameInputs("rgb", RGBColors)
    /\ frame = <<>>
    /\ SyncIdle
    /\ MoreIdle

BuildXY ==
    /\ fin.kind = "xy"
    /\ ~fin.built
    /\ fin' = [fin EXCEPT !.built = TRUE,
                          !.raised = ~ascii_encodable(fin.config_id)]
    /\ frame' = IF ascii_encodable(fin.config_id)
                THEN build_xy_message(fin.sequence, fin.config_id,
                                      fin.channels, fin.colors)
                ELSE <<>>
    /\ UNCHANGED <<es, last, seqVars, syncVars, moreVars>>

BuildRGB ==
    /\ fin.kind = "rgb"
    /\ ~fin.built
    /\ fin' = [fin EXCEPT !.built = TRUE,
                          !.raised = ~ascii_encodable(fin.config_id)]
    /\ frame' = IF ascii_encodable(fin.config_id)
                THEN build_rgb_message(fin.sequence, fin.config_id,
                                       fin.channels, fin.colors)
                ELSE <<>>
    /\ UNCHANGED <<es, last, seqVars, syncVars, moreVars>>

FrameNext ==
    \/ BuildXY
    \/ BuildRGB

FrameSpec == FrameSpecInit /\ [][FrameNext]_vars

Built == fin.kind \in {"xy", "rgb"} /\ fin.built /\ ~fin.raised

\* the k-th (from 0) 7-byte record after the header and the zone id
RecordAt(k) ==
    LET base == 16 + Len(fin.config_id)
    IN  SubSeq(frame, base + 7 * k + 1, base + 7 * k + 7)

NRecords == Cardinality(fin.channels)

\* C7: after the header a built frame holds exactly one 7-byte record per
\* known channel, in strictly ascending channel_id order; a known channel
\* the call gave no colour for has six zero colour bytes, and an id that is
\* not a known channel has no record.
C7_OneRecordPerKnownChannel ==
    Built =>
        /\ Len(frame) = 16 + Len(fin.config_id) + 7 * NRecords
        /\ {RecordAt(k)[1] : k \in 0..(NRecords - 1)} = fin.channels
        /\ \A k \in 0..(NRecords - 2) : RecordAt(k)[1] < RecordAt(k + 1)[1]
        /\ \A k \in 0..(NRecords - 1) :
              RecordAt(k)[1] \notin DOMAIN fin.colors =>
                  SubSeq(RecordAt(k), 2, 7) = <<0, 0, 0, 0, 0, 0>>

C7_Witness ==
    /\ Built
    /\ fin.kind = "xy"
    /\ fin.channels = {0, 2, 5}
    /\ DOMAIN fin.colors = {1, 5}
    /\ fin.colors[5] = <<<<3, 4>>, 127>>
    /\ Len(frame) = 73
    /\ RecordAt(0) = <<0, 0, 0, 0, 0, 0, 0>>
    /\ RecordAt(2)[1] = 5
    /\ RecordAt(2)[6] * 256 + RecordAt(2)[7] = 127 * 257

\* C8: with a 36-character zone id the frame is "HueStream", 0x02 0x00, the
\* sequence, 0x00 0x00, the colour space (0 RGB, 1 XY), 0x00, the zone id
\* as ASCII at bytes 16..51, then 7 bytes per known channel: 52 + 7 N bytes,
\* and the fields read back at these offsets are the ones given.
C8_HeaderLayout ==
    (Built /\ Len(fin.config_id) = 36) =>
        /\ SubSeq(frame, 1, 9) = <<72, 117, 101, 83, 116, 114, 101, 97, 109>>
        /\ frame[10] = 2
        /\ frame[11] = 0
        /\ frame[12] = fin.sequence
        /\ frame[13] = 0
        /\ frame[14] = 0
        /\ frame[15] = (IF fin.kind = "rgb" THEN 0 ELSE 1)
        /\ frame[16] = 0
        /\ SubSeq(frame, 17, 52) = fin.config_id
        /\ Len(frame) = 52 + 7 * NRecords
        /\ \A i \in DOMAIN frame : frame[i] \in 0..255

C8_Witness ==
    /\ Built
    /\ fin.kind = "rgb"
    /\ fin.sequence = 255
    /\ fin.config_id = Uuid(49)
    /\ NRecords = 3
    /\ Len(frame) = 73
    /\ frame[12] = 255
    /\ frame[17] = 49

Clamp(v, lo, hi) == IF v < lo THEN lo ELSE IF v > hi THEN hi ELSE v

\* f = floor(clamp(n / GridDen, 0, 1) * 65535)
IsScaledFloor(f, n) ==
    /\ f * GridDen <= Clamp(n, 0, GridDen) * 65535
    /\ Clamp(n, 0, GridDen) * 65535 < (f + 1) * GridDen

\* C9: in an XY frame the three 16-bit fields of every record, read high
\* byte first, are floor(clamp(x, 0, 1) * 65535), floor(clamp(y, 0, 1) *
\* 65535) and clamp(brightness, 0, 254) * 257 of the colour given for the
\* channel, whatever the inputs: each within 0..65535, brightness at most
\* 65278.
C9_FieldScaling ==
    (Built /\ fin.kind = "xy") =>
        \A k \in 0..(NRecords - 1) :
            LET rec == RecordAt(k)
                c == IF rec[1] \in DOMAIN fin.colors
                     THEN fin.colors[rec[1]] ELSE <<<<0, 0>>, 0>>
                x == rec[2] * 256 + rec[3]
                y == rec[4] * 256 + rec[5]
                b == rec[6] * 256 + rec[7]
            IN  /\ \A i \in 2..7 : rec[i] \in 0..255
                /\ IsScaledFloor(x, c[1][1])
                /\ IsScaledFloor(y, c[1][2])
                /\ b = Clamp(c[2], 0, 254) * 257
                /\ b <= 65278

C9_Witness ==
    /\ Built
    /\ fin.kind = "xy"
    /\ fin.channels = {5}
    /\ 5 \in DOMAIN fin.colors
    /\ fin.colors[5] = <<<<-2, 9>>, 300>>
    /\ SubSeq(RecordAt(0), 2, 7) = <<0, 0, 255, 255, 254, 254>>


(***************************************************************************)
(* ScreenCapture                                                           *)
(***************************************************************************)

PortalOutcomes == {"ok", "no_session", "no_node"}
PipelineOutcomes == {"ok", "state_failure", "raise"}

\* _setup_portal_session. "no_session": CreateSession gave no handle;
\* "no_node": the handle was stored but Start gave no stream (or a call
\* raised after the handle was stored).
setup_portal_session(c, po) ==
    CASE po = "ok" -> [cap |-> [c EXCEPT !.handle = TRUE, !.node = TRUE], ret |-> TRUE]
      [] po = "no_node" -> [cap |-> [c EXCEPT !.handle = TRUE], ret |-> FALSE]
      [] OTHER -> [cap |-> c, ret |-> FALSE]

\* _start_pipeline. "state_failure": the pipeline was built and stored but
\* refused PLAYING; "raise": parse_launch raised, nothing was stored.
start_pipeline(c, so) ==
    IF ~c.node THEN [cap |-> c, ret |-> FALSE]
    ELSE CASE so = "ok" -> [cap |-> [c EXCEPT !.pipeline = TRUE, !.prun = TRUE],
                            ret |-> TRUE]
           [] so = "state_failure" -> [cap |-> [c EXCEPT !.pipeline = TRUE],
                                       ret |-> FALSE]
           [] OTHER -> [cap |-> c, ret |-> FALSE]

\* capture(): ret says whether a frame is returned. got: the producer
\* publishes a frame within the 2 s wait for the first frame.
capture(c, po, so, got) ==
    IF c.prun /\ c.frame
    THEN [cap |-> c, ret |-> TRUE]
    ELSE LET p == IF ~c.node THEN setup_portal_session(c, po)
                  ELSE [cap |-> c, ret |-> TRUE]
         IN  IF ~p.ret THEN [cap |-> p.cap, ret |-> FALSE]
             ELSE LET q == IF ~p.cap.prun THEN start_pipeline(p.cap, so)
                           ELSE [cap |-> p.cap, ret |-> TRUE]
                  IN  IF ~q.ret THEN [cap |-> q.cap, ret |-> FALSE]
                      ELSE IF q.cap.frame \/ got
                      THEN [cap |-> [q.cap EXCEPT !.frame = TRUE], ret |-> TRUE]
                      ELSE [cap |-> q.cap, ret |-> FALSE]

stop_pipeline(c) ==
    IF c.pipeline THEN CaptureInit ELSE c

(***************************************************************************)
(* SyncController                                                          *)
(***************************************************************************)

\* queue.put_nowait, the event dropped when the queue is full
queue_status(q, ev) == IF Len(q) < QueueCap THEN Append(q, ev) ELSE q

Alive(t) == pc[t] \notin {"unborn", "exited"}

Spawned == Cardinality({t \in Threads : pc[t] # "unborn"})

MutReleaseOnlyAfterCleanJoin(c, join) ==
    IF join = "joined" THEN stop_pipeline(c) ELSE c

\* the end of stop(): capture.stop_pipeline(), whatever the join gave
stop_release(c, join) == stop_pipeline(c)

\* start(). The mapping is rebuilt only when the stream is connected, and
\* stays empty when the stream knows no channel positions.
Start ==
    /\ mainPc = "idle"
    /\ ~running
    /\ Spawned < MaxThreads
    /\ \E built \in {"built", "empty"} :
          zmap' = IF is_connected(es) THEN built ELSE zmap
    /\ running' = TRUE
    /\ thread' = Spawned + 1
    /\ pc' = [pc EXCEPT ![Spawned + 1] = "top"]
    /\ UNCHANGED <<es, last, seqVars, frameVars, moreVars, mainPc, cap, queue>>

\* stop(): self.running = False
StopBegin ==
    /\ mainPc = "idle"
    /\ running
    /\ running' = FALSE
    /\ mainPc' = "join"
    /\ UNCHANGED <<es, last, seqVars, frameVars, moreVars, thread, pc, cap, queue, zmap>>

\* thread.join(timeout=3) returns because the thread ended
StopJoined ==
    /\ mainPc = "join"
    /\ pc[thread] = "exited"
    /\ mainPc' = "joined"
    /\ UNCHANGED <<es, last, seqVars, frameVars, moreVars, running, thread, pc, cap, queue,
                   zmap>>

\* thread.join(timeout=3) returns after 3 s with the thread still inside an
\* iteration (capture waiting for the portal or a frame, a slow frame, a sleep)
StopTimedOut ==
    /\ mainPc = "join"
    /\ pc[thread] \in {"tick", "frame", "sleep", "backoff"}
    /\ mainPc' = "timedout"
    /\ UNCHANGED <<es, last, seqVars, frameVars, moreVars, running, thread, pc, cap, queue,
                   zmap>>

StopRelease ==
    /\ mainPc \in {"joined", "timedout"}
    /\ cap' = stop_release(cap, mainPc)
    /\ mainPc' = IF mainPc = "joined" THEN "done_joined" ELSE "done_timedout"
    /\ UNCHANGED <<es, last, seqVars, frameVars, moreVars, running, thread, pc, queue, zmap>>

\* stop() returns to the caller
StopReturn ==
    /\ mainPc \in {"done_joined", "done_timedout"}
    /\ mainPc' = "idle"
    /\ UNCHANGED <<es, last, seqVars, frameVars, moreVars, running, thread, pc, cap, queue,
                   zmap>>

\* while self.running: ... ; self._queue_status('status', 'stopped', None)
LoopCheck(t) ==
    /\ pc[t] = "top"
    /\ IF running
       THEN /\ pc' = [pc EXCEPT ![t] = "tick"]
            /\ UNCHANGED queue
       ELSE /\ pc' = [pc EXCEPT ![t] = "exited"]
            /\ queue' = queue_status(queue, "stopped")
    /\ UNCHANGED <<es, last, seqVars, frameVars, moreVars, running, thread, mainPc, cap,
                   zmap>>

\* _process_frame up to `if not screen: return`
LoopCapture(t) ==
    /\ pc[t] = "tick"
    /\ \E po \in PortalOutcomes, so \in PipelineOutcomes, got \in BOOLEAN :
          LET r == capture(cap, po, so, got) IN
          /\ cap' = r.cap
          /\ pc' = [pc EXCEPT ![t] = IF r.ret THEN "frame" ELSE "sleep"]
    /\ UNCHANGED <<es, last, seqVars, frameVars, moreVars, running, thread, mainPc, queue,
                   zmap>>

\* the rest of _process_frame: zones, analysis, smoothing, _update_lights and
\* the 'syncing' status. _update_lights sends only over a connected stream
\* and only when the map gave at least one channel a colour.
LoopUpdate(t) ==
    /\ pc[t] = "frame"
    /\ \E w \in WriteOutcomes :
          IF is_connected(es) /\ zmap = "built"
          THEN /\ (w = "ok") => es.sequence < MaxSyncFrames
               /\ es' = send_colors_xy(es, w).es
          ELSE es' = es
    /\ queue' = queue_status(queue, "syncing")
    /\ pc' = [pc EXCEPT ![t] = "sleep"]
    /\ UNCHANGED <<last, seqVars, frameVars, moreVars, running, thread, mainPc, cap, zmap>>

\* time.sleep(delay) and the fps / frame_count update
LoopSleep(t) ==
    /\ pc[t] = "sleep"
    /\ pc' = [pc EXCEPT ![t] = "top"]
    /\ UNCHANGED <<es, last, seqVars, frameVars, moreVars, running, thread, mainPc, cap,
                   queue, zmap>>

\* an exception inside the iteration: the error status, then the back-off
LoopRaise(t) ==
    /\ pc[t] \in {"tick", "frame"}
    /\ queue' = queue_status(queue, "error")
    /\ pc' = [pc EXCEPT ![t] = "backoff"]
    /\ UNCHANGED <<es, last, seqVars, frameVars, moreVars, running, thread, mainPc, cap,
                   zmap>>

\* time.sleep(1) is over
LoopBackoff(t) ==
    /\ pc[t] = "backoff"
    /\ pc' = [pc EXCEPT ![t] = "top"]
    /\ UNCHANGED <<es, last, seqVars, frameVars, moreVars, running, thread, mainPc, cap,
                   queue, zmap>>

LoopStep(t) ==
    \/ LoopCheck(t)
    \/ LoopCapture(t)
    \/ LoopUpdate(t)
    \/ LoopSleep(t)
    \/ LoopRaise(t)
    \/ LoopBackoff(t)

\* _on_new_sample on the GStreamer thread
OnNewSample ==
    /\ cap.prun
    /\ ~cap.frame
    /\ cap' = [cap EXCEPT !.frame = TRUE]
    /\ UNCHANGED <<es, last, seqVars, frameVars, moreVars, running, thread, pc, mainPc,
                   queue, zmap>>

\* MainWindow._update_status drains the queue
GuiDrain ==
    /\ mainPc = "idle"
    /\ queue # <<>>
    /\ queue' = <<>>
    /\ UNCHANGED <<es, last, seqVars, frameVars, moreVars, running, thread, pc, mainPc, cap,
                   zmap>>

\* connect() and disconnect() called from the GUI thread
MainConnect ==
    /\ mainPc = "idle"
    /\ \E cfg \in CfgOutcomes, act \in ActOutcomes, hs \in HsOutcomes :
          es' = connect(es, cfg, act, hs).es
    /\ UNCHANGED <<last, seqVars, frameVars, moreVars, syncVars>>

MainDisconnect ==
    /\ mainPc = "idle"
    /\ es' = disconnect(es).es
    /\ UNCHANGED <<last, seqVars, frameVars, moreVars, syncVars>>

SyncSpecInit ==
    /\ es = StreamInit
    /\ last = LastInit
    /\ SeqIdle
    /\ FrameIdle
    /\ SyncIdle
    /\ MoreIdle

\* what the controller, its loop threads and the capture producer do
LifecycleNext ==
    \/ Start
    \/ StopBegin
    \/ StopJoined
    \/ StopTimedOut
    \/ StopRelease
    \/ StopReturn
    \/ \E t \in Threads : LoopStep(t)
    \/ OnNewSample
    \/ GuiDrain

SyncNext ==
    \/ LifecycleNext
    \/ MainConnect
    \/ MainDisconnect
    \/ ProcExit

SyncSpec == SyncSpecInit /\ [][SyncNext]_vars

\* The stream as connect() leaves it on success.
StreamConnected ==
    connect(StreamInit, "ok", "ok", "ok").es

\* The controller's life cycle over a stream that is connected, or not, from
\* the beginning and that nobody else touches.
LifecycleSpecInit ==
    /\ es \in {StreamInit, StreamConnected}
    /\ last = LastInit
    /\ SeqIdle
    /\ FrameIdle
    /\ SyncIdle
    /\ MoreIdle

LifecycleSpec == LifecycleSpecInit /\ [][LifecycleNext]_vars

\* Every loop thread is an OS thread that keeps being scheduled.
FairSyncSpec == SyncSpec /\ \A t \in Threads : WF_vars(LoopStep(t))

(***************************************************************************)
(* Claims about the sync loop and stop()                                   *)
(***************************************************************************)

\* C5: once a send has failed while the loop is running, the loop leaves the
\* running state by itself: from every state where the controller is running
\* and the session was marked disconnected by a failed send, a state where
\* the controller is no longer running is eventually reached.
C5_LoopStopsAfterSendFailure ==
    (running /\ es.sendFailed /\ ~is_connected(es)) ~> ~running

StopReleased(c, c2) ==
    /\ ~c2.pipeline
    /\ ~c2.prun
    /\ ~c2.frame
    /\ c.pipeline => c2 = CaptureInit

stop_entertainment(s) ==
    IF is_connected(s) THEN disconnect(s).es ELSE s

\* shutdown(): `if self.sync_controller.is_running(): self.sync_controller.stop()`
\* up to the join; with the controller not running stop() is skipped.
ShutdownBegin ==
    /\ mainPc = "idle"
    /\ IF running
       THEN /\ running' = FALSE
            /\ mainPc' = "sd_join"
       ELSE /\ running' = running
            /\ mainPc' = "sd_stream_idle"
    /\ UNCHANGED <<es, last, seqVars, frameVars, moreVars, thread, pc, cap, queue, zmap>>

ShutdownJoined ==
    /\ mainPc = "sd_join"
    /\ pc[thread] = "exited"
    /\ mainPc' = "sd_joined"
    /\ UNCHANGED <<es, last, seqVars, frameVars, moreVars, running, thread, pc, cap, queue,
                   zmap>>

ShutdownTimedOut ==
    /\ mainPc = "sd_join"
    /\ pc[thread] \in {"tick", "frame", "sleep", "backoff"}
    /\ mainPc' = "sd_timedout"
    /\ UNCHANGED <<es, last, seqVars, frameVars, moreVars, running, thread, pc, cap, queue,
                   zmap>>

\* the end of stop() inside shutdown()
ShutdownRelease ==
    /\ mainPc \in {"sd_joined", "sd_timedout"}
    /\ cap' = stop_release(cap, IF mainPc = "sd_joined" THEN "joined" ELSE "timedout")
    /\ mainPc' = "sd_stream"
    /\ UNCHANGED <<es, last, seqVars, frameVars, moreVars, running, thread, pc, queue, zmap>>

\* finally: self.stop_entertainment(); shutdown() returns
ShutdownEntertainment ==
    /\ mainPc \in {"sd_stream", "sd_stream_idle"}
    /\ es' = stop_entertainment(es)
    /\ mainPc' = IF mainPc = "sd_stream" THEN "sd_done" ELSE "sd_done_idle"
    /\ UNCHANGED <<last, seqVars, frameVars, moreVars, running, thread, pc, cap, queue, zmap>>

AppNext ==
    \/ SyncNext
    \/ ShutdownBegin
    \/ ShutdownJoined
    \/ ShutdownTimedOut
    \/ ShutdownRelease
    \/ ShutdownEntertainment

AppSpec == SyncSpecInit /\ [][AppNext]_vars

\* C11: when shutdown() has stopped a running controller and returned, the
\* capture pipeline is stopped and dropped, the stream is disconnected and
\* the zone is no longer activated, whether the join ended with the thread or
\* timed out.
C11_StopReleasesCaptureAndStream ==
    (mainPc = "sd_done") =>
        /\ ~cap.pipeline
        /\ ~cap.prun
        /\ ~is_connected(es)
        /\ ~es.claimed

(***************************************************************************)
(* SyncController: the stats dict                                          *)
(***************************************************************************)

\* what _process_frame does in an iteration, as far as the stats go
TickOutcomes == {"raise", "no_frame", "frame"}

\* measured fps values and stage timings
FpsValues == {30}
Timings == {1, 2}

\* A dict no reference leads to any more is freed at once (reference
\* counting); its id is not given out again.
Collect(h, roots) ==
    [i \in 1..Len(h) |-> IF i \in roots THEN h[i] ELSE NewStats]

MutGetStatsLiveReference(h, ref) == [heap |-> h, ret |-> ref]

\* get_stats(): self._stats.copy(), a new dict with the same values; the dict
\* under 'last_stage_times' is shared with the original
get_stats(h, ref) == [heap |-> Append(h, h[ref]), ret |-> Len(h) + 1]

\* reset_stats(): self._stats = {...}, a new dict
reset_stats(h) == [heap |-> Append(h, NewStats), ret |-> Len(h) + 1]

\* _process_frame: an exception, a return before the stats, or the frame
\* worked through up to `with self.lock:`
StatsTick ==
    /\ pc[1] = "tick"
    /\ heap[statsRef].frame_count + heap[statsRef].errors < MaxCount
    /\ \E o \in TickOutcomes :
          CASE o = "raise" -> /\ pc' = [pc EXCEPT ![1] = "r_err"]
                              /\ UNCHANGED slock
            [] o = "no_frame" -> /\ pc' = [pc EXCEPT ![1] = "sleep"]
                                 /\ UNCHANGED slock
            [] OTHER -> /\ slock = "free"
                        /\ Len(stage) < MaxStages
                        /\ slock' = "loop"
                        /\ pc' = [pc EXCEPT ![1] = "stage"]
    /\ UNCHANGED <<es, last, seqVars, frameVars, lateVars, mapVars, mixVars, hsVars,
                   running, thread, mainPc, cap,
                   queue, zmap, heap, statsRef, stage, reg, snap>>

\* self._stats['last_stage_times'] = {...} under the lock, the lock released,
\* then the 'syncing' status
StatsStageWrite ==
    /\ pc[1] = "stage"
    /\ \E t \in Timings : stage' = Append(stage, t)
    /\ heap' = [heap EXCEPT ![statsRef].lst = Len(stage) + 1]
    /\ slock' = "free"
    /\ queue' = queue_status(queue, "syncing")
    /\ pc' = [pc EXCEPT ![1] = "sleep"]
    /\ UNCHANGED <<es, last, seqVars, frameVars, lateVars, mapVars, mixVars, hsVars,
                   running, thread, mainPc, cap,
                   zmap, statsRef, reg, snap>>

\* time.sleep(delay); self._stats['fps'] = ...: the dict is loaded
StatsSleep ==
    /\ pc[1] = "sleep"
    /\ \E f \in FpsValues : reg' = [r |-> statsRef, v |-> f]
    /\ pc' = [pc EXCEPT ![1] = "w_fps"]
    /\ UNCHANGED <<es, last, seqVars, frameVars, lateVars, mapVars, mixVars, hsVars,
                   running, thread, mainPc, cap,
                   queue, zmap, heap, statsRef, stage, slock, snap>>

\* ... and the value stored in it
StatsWriteFps ==
    /\ pc[1] = "w_fps"
    /\ heap' = Collect([heap EXCEPT ![reg.r].fps = reg.v], {statsRef, snap.ref})
    /\ reg' = [r |-> 0, v |-> 0]
    /\ pc' = [pc EXCEPT ![1] = "r_fc"]
    /\ UNCHANGED <<es, last, seqVars, frameVars, lateVars, mapVars, mixVars, hsVars,
                   running, thread, mainPc, cap,
                   queue, zmap, statsRef, stage, slock, snap>>

\* self._stats['frame_count'] += 1: the dict and the old value are loaded
StatsReadCount ==
    /\ pc[1] = "r_fc"
    /\ reg' = [r |-> statsRef, v |-> heap[statsRef].frame_count]
    /\ pc' = [pc EXCEPT ![1] = "w_fc"]
    /\ UNCHANGED <<es, last, seqVars, frameVars, lateVars, mapVars, mixVars, hsVars,
                   running, thread, mainPc, cap,
                   queue, zmap, heap, statsRef, stage, slock, snap>>

\* ... and the sum stored in the dict that was loaded
StatsWriteCount ==
    /\ pc[1] = "w_fc"
    /\ heap' = Collect([heap EXCEPT ![reg.r].frame_count = reg.v + 1], {statsRef, snap.ref})
    /\ reg' = [r |-> 0, v |-> 0]
    /\ pc' = [pc EXCEPT ![1] = "top"]
    /\ UNCHANGED <<es, last, seqVars, frameVars, lateVars, mapVars, mixVars, hsVars,
                   running, thread, mainPc, cap,
                   queue, zmap, statsRef, stage, slock, snap>>

\* except Exception: self._stats['errors'] += 1, the load
StatsReadErrors ==
    /\ pc[1] = "r_err"
    /\ reg' = [r |-> statsRef, v |-> heap[statsRef].errors]
    /\ pc' = [pc EXCEPT ![1] = "w_err"]
    /\ UNCHANGED <<es, last, seqVars, frameVars, lateVars, mapVars, mixVars, hsVars,
                   running, thread, mainPc, cap,
                   queue, zmap, heap, statsRef, stage, slock, snap>>

\* ... and the store
StatsWriteErrors ==
    /\ pc[1] = "w_err"
    /\ heap' = Collect([heap EXCEPT ![reg.r].errors = reg.v + 1], {statsRef, snap.ref})
    /\ reg' = [r |-> 0, v |-> 0]
    /\ pc' = [pc EXCEPT ![1] = "q_err"]
    /\ UNCHANGED <<es, last, seqVars, frameVars, lateVars, mapVars, mixVars, hsVars,
                   running, thread, mainPc, cap,
                   queue, zmap, statsRef, stage, slock, snap>>

\* self._queue_status('error', str(e), None)
StatsQueueError ==
    /\ pc[1] = "q_err"
    /\ queue' = queue_status(queue, "error")
    /\ pc' = [pc EXCEPT ![1] = "backoff"]
    /\ UNCHANGED <<es, last, seqVars, frameVars, lateVars, mapVars, mixVars, hsVars,
                   running, thread, mainPc, cap,
                   zmap, statsVars>>

\* reset_stats() on the GUI thread; `with self.lock` waits for the lock
ResetStats ==
    /\ mainPc = "idle"
    /\ slock = "free"
    /\ Len(heap) < MaxDicts
    /\ heap' = Collect(reset_stats(heap).heap,
                     {reset_stats(heap).ret, reg.r, snap.ref})
    /\ statsRef' = reset_stats(heap).ret
    /\ UNCHANGED <<es, last, seqVars, frameVars, lateVars, mapVars, mixVars, hsVars,
                   syncVars, stage, slock, reg, snap>>

\* get_stats() on the GUI thread
GetStats ==
    /\ mainPc = "idle"
    /\ slock = "free"
    /\ Len(heap) < MaxDicts
    /\ LET g == get_stats(heap, statsRef) IN
       /\ heap' = Collect(g.heap, {statsRef, reg.r, g.ret})
       /\ snap' = [ref |-> g.ret, val |-> g.heap[g.ret],
                   times |-> IF g.heap[g.ret].lst = 0 THEN 0
                             ELSE stage[g.heap[g.ret].lst]]
    /\ UNCHANGED <<es, last, seqVars, frameVars, lateVars, mapVars, mixVars, hsVars,
                   syncVars, statsRef, stage, slock,
                   reg>>

\* A controller that start() has just set running, its stream not connected.
StatsSpecInit ==
    /\ es = StreamInit
    /\ last = LastInit
    /\ SeqIdle
    /\ FrameIdle
    /\ running = TRUE
    /\ thread = 1
    /\ pc = [t \in Threads |-> IF t = 1 THEN "top" ELSE "unborn"]
    /\ mainPc = "idle"
    /\ cap = CaptureInit
    /\ queue = <<>>
    /\ zmap = "empty"
    /\ StatsIdle
    /\ MapIdle
    /\ MixIdle
    /\ HueSyncIdle
    /\ LateIdle

StatsNext ==
    \/ LoopCheck(1)
    \/ StatsTick
    \/ StatsStageWrite
    \/ StatsSleep
    \/ StatsWriteFps
    \/ StatsReadCount
    \/ StatsWriteCount
    \/ StatsReadErrors
    \/ StatsWriteErrors
    \/ StatsQueueError
    \/ LoopBackoff(1)
    \/ StopBegin
    \/ StopJoined
    \/ StopTimedOut
    \/ StopRelease
    \/ StopReturn
    \/ GuiDrain
    \/ ResetStats
    \/ GetStats

StatsSpec == StatsSpecInit /\ [][StatsNext]_vars

\* The stats dict alone: the loop of a running controller, reset_stats() and
\* get_stats().
SnapNext ==
    \/ LoopCheck(1)
    \/ StatsTick
    \/ StatsStageWrite
    \/ StatsSleep
    \/ StatsWriteFps
    \/ StatsReadCount
    \/ StatsWriteCount
    \/ StatsReadErrors
    \/ StatsWriteErrors
    \/ StatsQueueError
    \/ LoopBackoff(1)
    \/ ResetStats
    \/ GetStats

SnapSpec == StatsSpecInit /\ [][SnapNext]_vars

(***************************************************************************)
(* Claims about the stats and the error handling of the loop               *)
(***************************************************************************)

\* C12: a tick that raised adds exactly 1 to the error counter of the
\* controller, then puts one error event on the status queue, then backs off
\* and returns to the loop test, which starts the next tick while the running
\* flag is set; the loop thread ends only with the flag cleared.
C12_FailingTickCountsPublishesContinues ==
    [][/\ (pc[1] = "w_err" /\ pc'[1] # "w_err") =>
              /\ heap'[statsRef'].errors = heap[statsRef].errors + 1
              /\ pc'[1] = "q_err"
       /\ (pc[1] = "q_err" /\ pc'[1] # "q_err") =>
              /\ queue' = Append(queue, "error")
              /\ pc'[1] = "backoff"
       /\ (pc[1] = "backoff" /\ pc'[1] # "backoff") => pc'[1] = "top"
       /\ (pc[1] = "top" /\ pc'[1] # "top") =>
              pc'[1] = IF running THEN "tick" ELSE "exited"
       /\ (pc[1] # "exited" /\ pc'[1] = "exited") => ~running
      ]_vars

\* the loop thread has loaded a stats dict and is about to store into it
LoopStoring == pc[1] \in {"stage", "w_fps", "w_fc", "w_err"}

\* C14: the loop thread takes every step that stores fps, frame_count, errors
\* or last_stage_times while holding the stats lock, and each counter update
\* adds exactly 1 to the counter of the controller, whatever reset_stats() and
\* get_stats() do meanwhile.
C14_StatsUpdatesUnderLock ==
    [][/\ (LoopStoring /\ pc'[1] # pc[1]) => slock = "loop"
       /\ (pc[1] = "w_fc" /\ pc'[1] # pc[1]) =>
              heap'[statsRef'].frame_count = heap[statsRef].frame_count + 1
       /\ (pc[1] = "w_err" /\ pc'[1] # pc[1]) =>
              heap'[statsRef'].errors = heap[statsRef].errors + 1
      ]_vars

\* C15: the dict get_stats() returned last still holds the values it held
\* when it was returned, and so does the last_stage_times dict it refers to,
\* whatever the loop thread and reset_stats() have done since.
C15_SnapshotNeverChanges ==
    (snap.ref # 0) =>
        /\ heap[snap.ref] = snap.val
        /\ (snap.val.lst # 0) => (stage[snap.val.lst] = snap.times)

\* A snapshot taken after one full iteration, then a reset_stats() and a
\* further iteration that stored new stage timings and an fps value.
C15_Witness ==
    /\ snap.ref = 2
    /\ snap.val.frame_count = 1
    /\ snap.val.lst = 1
    /\ statsRef = 3
    /\ heap[3].lst = 2
    /\ heap[3].fps = 30
    /\ heap[3].frame_count = 1

(***************************************************************************)
(* Claims about the loop threads and the zone-channel map                  *)
(***************************************************************************)

\* the loop threads inside _process_frame (capturing, or processing and
\* sending a frame)
Ticking == {t \in Threads : pc[t] \in {"tick", "frame"}}

\* C13: whatever start() and stop() calls were made, a timed-out join
\* followed by a new start() included, at most one loop thread is executing a
\* tick.
C13_AtMostOneLoopThreadTicks ==
    Cardinality(Ticking) <= 1

(***************************************************************************)
(* SyncController._build_zone_channel_mapping                              *)
(*                                                                         *)
(* A channel is [id, position]; its position is the dict of the bridge's   *)
(* configuration, a function from some of the keys x, y, z to a            *)
(* coordinate. Zone targets are rationals, kept as numerator and           *)
(* denominator, and distances are compared exactly.                        *)
(***************************************************************************)
MaxChannels == 2

Max(a, b) == IF a >= b THEN a ELSE b

Range(f) == {f[i] : i \in DOMAIN f}

\* rows and cols of the zone processor: the sides depend on rows only, top
\* and bottom on cols only, so each value appears in one layout
Layouts ==
    {[rows |-> 1, cols |-> 1], [rows |-> 3, cols |-> 2],
     [rows |-> 4, cols |-> 2], [rows |-> 6, cols |-> 3]}

\* The position dicts of a channel: any of the keys may be missing.
PositionDicts ==
    {p \in UNION {[D -> {-1, 1}] : D \in SUBSET {"x", "y", "z"}} :
        "y" \in DOMAIN p => p["y"] = 1}

\* _channels holds one entry per channel id, in the order of the
\* configuration; the ids go up or down along it.
ChannelLists ==
    {c \in UNION {[1..n -> [id : 0..(MaxChannels - 1), position : PositionDicts]] :
                     n \in 0..MaxChannels} :
        \/ \A i, j \in DOMAIN c : i < j => c[i].id < c[j].id
        \/ \A i, j \in DOMAIN c : i < j => c[i].id > c[j].id}

\* info.position.get(k, 0)
position_get(position, k) == IF k \in DOMAIN position THEN position[k] ELSE 0

\* Only the channels whose position dict holds something.
MutPositionsOfPlacedOnly(chs) ==
    LET placed == SelectSeq(chs, LAMBDA c : DOMAIN c.position # {}) IN
    [i \in DOMAIN placed |->
        [id |-> placed[i].id,
         pos |-> [x |-> position_get(placed[i].position, "x"),
                  y |-> position_get(placed[i].position, "y"),
                  z |-> position_get(placed[i].position, "z")]]]

\* channel_id -> {'x', 'y', 'z'} for every channel, in the order of _channels
get_channel_positions(chs) ==
    [i \in DOMAIN chs |->
        [id |-> chs[i].id,
         pos |-> [x |-> position_get(chs[i].position, "x"),
                  y |-> position_get(chs[i].position, "y"),
                  z |-> position_get(chs[i].position, "z")]]]

\* list(channel_positions.keys())[0] if channel_positions else None
NoChannel == -1
first_key(channel_positions) ==
    IF channel_positions = <<>> THEN NoChannel ELSE channel_positions[1].id

\* zones of one edge: cols for top and bottom, max(1, rows // 2) for the sides
edge_count(edge, rows, cols) ==
    IF edge \in {"top", "bottom"} THEN cols ELSE Max(1, rows \div 2)

edge_zones(edge, rows, cols) ==
    [i \in 1..edge_count(edge, rows, cols) |-> Zone(edge, i - 1)]

\* the zones list of _build_zone_channel_mapping
mapping_zones(rows, cols) ==
    edge_zones("top", rows, cols) \o edge_zones("bottom", rows, cols)
        \o edge_zones("left", rows, cols) \o edge_zones("right", rows, cols)

\* ZoneProcessor.get_zone_ids for the ambilight layout
get_zone_ids(rows, cols) ==
    [i \in 1..cols |-> Zone("top", i - 1)]
        \o [i \in 1..cols |-> Zone("bottom", i - 1)]
        \o [i \in 1..Max(1, rows \div 2) |-> Zone("left", i - 1)]
        \o [i \in 1..Max(1, rows \div 2) |-> Zone("right", i - 1)]

\* target_z of a side zone: 1.0 - idx * 2.0 / max(1, rows // 2 - 1) if
\* rows > 2 else 0, as <<numerator, denominator>>
side_target_z(idx, rows) ==
    IF rows > 2
    THEN LET den == Max(1, (rows \div 2) - 1) IN <<den - idx * 2, den>>
    ELSE <<0, 1>>

\* target_x of a top or bottom zone: -1.0 + idx * 2.0 / max(1, cols - 1) if
\* cols > 1 else 0
flat_target_x(idx, cols) ==
    IF cols > 1
    THEN LET den == Max(1, cols - 1) IN <<idx * 2 - den, den>>
    ELSE <<0, 1>>

KnownEdges == {"left", "right", "top", "bottom"}

\* the expected position of a zone of a known edge
zone_target(zone, rows, cols) ==
    CASE zone.edge = "left"   -> [x |-> <<-1, 1>>, z |-> side_target_z(zone.idx, rows)]
      [] zone.edge = "right"  -> [x |-> <<1, 1>>, z |-> side_target_z(zone.idx, rows)]
      [] zone.edge = "top"    -> [x |-> flat_target_x(zone.idx, cols), z |-> <<1, 1>>]
      [] zone.edge = "bottom" -> [x |-> flat_target_x(zone.idx, cols), z |-> <<-1, 1>>]

\* The same with the y coordinate in the place of z.
MutDistanceOverXY(pos, tg) ==
    LET s == tg.x[2] * tg.z[2] IN
    (pos.x * s - tg.x[1] * tg.z[2]) * (pos.x * s - tg.x[1] * tg.z[2])
        + (pos.y * s - tg.z[1] * tg.x[2]) * (pos.y * s - tg.z[1] * tg.x[2])

\* (cx - target_x) ** 2 + (cz - target_z) ** 2, times the square of the
\* product of the target's two denominators
distance(pos, tg) ==
    LET s == tg.x[2] * tg.z[2] IN
    (pos.x * s - tg.x[1] * tg.z[2]) * (pos.x * s - tg.x[1] * tg.z[2])
        + (pos.z * s - tg.z[1] * tg.x[2]) * (pos.z * s - tg.z[1] * tg.x[2])

\* the loop over channel_positions.items(); best_distance -1 is float('inf')
RECURSIVE closest(_, _, _, _, _)
closest(channel_positions, tg, i, best_channel, best_distance) ==
    IF i > Len(channel_positions)
    THEN best_channel
    ELSE LET d == distance(channel_positions[i].pos, tg) IN
         IF best_distance = -1 \/ d < best_distance
         THEN closest(channel_positions, tg, i + 1, channel_positions[i].id, d)
         ELSE closest(channel_positions, tg, i + 1, best_channel, best_distance)

find_best_channel_for_zone(zone, channel_positions, rows, cols) ==
    IF zone.edge \notin KnownEdges
    THEN first_key(channel_positions)
    ELSE closest(channel_positions, zone_target(zone, rows, cols), 1, NoChannel, -1)

\* _build_zone_channel_mapping: the map it leaves in _zone_channel_map
build_zone_channel_mapping(chs, rows, cols) ==
    LET channel_positions == get_channel_positions(chs) IN
    IF channel_positions = <<>>
    THEN EmptyMap
    ELSE LET found == [z \in Range(mapping_zones(rows, cols)) |->
                          find_best_channel_for_zone(z, channel_positions, rows, cols)]
         IN  [z \in {y \in DOMAIN found : found[y] # NoChannel} |-> found[z]]

\* start() with the map's contents: the map is rebuilt only over a
\* connected stream, then running is set and the loop thread spawned
MapStart ==
    /\ mainPc = "idle"
    /\ ~running
    /\ Spawned < MaxThreads
    /\ zcm' = IF is_connected(es)
              THEN build_zone_channel_mapping(chans, layout.rows, layout.cols)
              ELSE zcm
    /\ zmap' = IF zcm' = EmptyMap THEN "empty" ELSE "built"
    /\ running' = TRUE
    /\ thread' = Spawned + 1
    /\ pc' = [pc EXCEPT ![Spawned + 1] = "top"]
    /\ UNCHANGED <<es, last, seqVars, frameVars, lateVars, statsVars, mixVars, hsVars, mainPc, cap, queue,
                   layout, chans, bpos, seen>>

\* the zones of a frame that self._zone_channel_map.get(zone_id) finds
lookup_zones(m, rows, cols) ==
    {z \in Range(get_zone_ids(rows, cols)) : z \in DOMAIN m}

\* One iteration as far as the map is concerned: _update_lights looks every
\* zone of the frame up in the map. Capture and transport are the subject
\* of LoopCapture and LoopUpdate.
MapTick(t) ==
    /\ pc[t] = "tick"
    /\ seen' = lookup_zones(zcm, layout.rows, layout.cols)
    /\ pc' = [pc EXCEPT ![t] = "sleep"]
    /\ UNCHANGED <<es, last, seqVars, frameVars, lateVars, statsVars, mixVars, hsVars, running, thread,
                   mainPc, cap, queue, zmap, layout, chans, zcm, bpos>>

MapSpecInit ==
    /\ es = StreamConnected
    /\ last = LastInit
    /\ SeqIdle
    /\ FrameIdle
    /\ SyncIdle
    /\ StatsIdle
    /\ MixIdle
    /\ HueSyncIdle
    /\ LateIdle
    /\ layout \in Layouts
    /\ chans \in ChannelLists
    /\ zcm = EmptyMap
    /\ bpos = -1
    /\ seen = {}

MapNext ==
    \/ MapStart
    \/ \E t \in Threads : LoopCheck(t) \/ MapTick(t) \/ LoopSleep(t)

MapSpec == MapSpecInit /\ [][MapNext]_vars

\* The squared Euclidean distance in the (x,z) plane between a channel and
\* the target of a zone, times the square of both target denominators.
SqDistXZ(ch, z) ==
    LET tg == zone_target(z, layout.rows, layout.cols)
        cx == position_get(ch.position, "x")
        cz == position_get(ch.position, "z")
        dx == cx * tg.x[2] - tg.x[1]
        dz == cz * tg.z[2] - tg.z[1]
    IN  dx * dx * tg.z[2] * tg.z[2] + dz * dz * tg.x[2] * tg.x[2]

\* The channels with the y coordinate taken out of every position.
WithoutY(chs) ==
    [i \in DOMAIN chs |->
        [id |-> chs[i].id,
         position |-> [k \in DOMAIN chs[i].position \ {"y"} |-> chs[i].position[k]]]]

\* C18: once start() has built the map over a stream with known channels,
\* every zone id {edge}_{index} of the ring layout is mapped to a channel
\* none of the known channels is nearer, in Euclidean (x,z) distance, to the
\* zone's target position; and the map is the one the same channels give
\* with their y coordinates taken away.
C18_NearestChannelInXZ ==
    (thread # 0 /\ chans # <<>>) =>
        /\ \A z \in Range(get_zone_ids(layout.rows, layout.cols)) :
              /\ z \in DOMAIN zcm
              /\ \E i \in DOMAIN chans :
                    /\ chans[i].id = zcm[z]
                    /\ \A j \in DOMAIN chans : SqDistXZ(chans[i], z) <= SqDistXZ(chans[j], z)
        /\ zcm = build_zone_channel_mapping(WithoutY(chans), layout.rows, layout.cols)

\* Two channels, the first with a y coordinate and the second without: the
\* middle zone of the left edge of a 6 x 3 layout goes to the second one,
\* which is strictly nearer, and the loop has looked the zones up.
C18_Witness ==
    /\ thread # 0
    /\ layout = [rows |-> 6, cols |-> 3]
    /\ Len(chans) = 2
    /\ "y" \in DOMAIN chans[1].position
    /\ "y" \notin DOMAIN chans[2].position
    /\ chans[1].id < chans[2].id
    /\ zcm[Zone("left", 1)] = chans[2].id
    /\ SqDistXZ(chans[2], Zone("left", 1)) < SqDistXZ(chans[1], Zone("left", 1))
    /\ zcm[Zone("top", 0)] = chans[1].id
    /\ Zone("left", 1) \in seen

\* No channel of the configuration came with position data.
NoPositionData == \A i \in DOMAIN chans : DOMAIN chans[i].position = {}

\* C20: when no channel has position data, start() can build the map (it
\* does not fail), and the map it builds gives every zone of the layout the
\* first channel of the configuration; with no channel at all the map is
\* left empty.
C20_NoPositionsFirstChannelEverywhere ==
    NoPositionData =>
        /\ thread = 0 => ENABLED MapStart
        /\ thread # 0 =>
              IF chans = <<>>
              THEN zcm = EmptyMap
              ELSE /\ DOMAIN zcm = Range(get_zone_ids(layout.rows, layout.cols))
                   /\ \A z \in DOMAIN zcm : zcm[z] = chans[1].id

\* Two channels without positions, the first one with the larger id: the
\* twelve zones of a 6 x 3 layout all go to it and the loop finds them all.
C20_Witness ==
    /\ thread # 0
    /\ layout = [rows |-> 6, cols |-> 3]
    /\ Len(chans) = 2
    /\ NoPositionData
    /\ chans[1].id = 1
    /\ chans[2].id = 0
    /\ Cardinality(DOMAIN zcm) = 12
    /\ zcm[Zone("right", 2)] = 1
    /\ seen = DOMAIN zcm

(***************************************************************************)
(* SyncController._update_lights: zone colours to channel colours          *)
(*                                                                         *)
(* xy values are dyadic rationals in units of 1/XYUnit, so that every `/ 2`*)
(* of the running average is exact, as it is in binary floating point.     *)
(***************************************************************************)
MaxMix == 3

XYUnit == 2 ^ MaxMix

\* (xy, brightness) values of a zone
Palette ==
    {[x |-> 0, y |-> 0, bri |-> 1],
     [x |-> XYUnit, y |-> 0, bri |-> 4],
     [x |-> XYUnit, y |-> XYUnit, bri |-> 254]}

\* the zones of a 1 x 1 layout
MixZones == Range(get_zone_ids(1, 1))

\* hue_colors: at most MaxMix zones with their colours, in the dict's order
HueColors ==
    {h \in UNION {[1..n -> [zone : MixZones, color : Palette]] : n \in 0..MaxMix} :
        \A i, j \in DOMAIN h : i # j => h[i].zone # h[j].zone}

\* the maps a build leaves for these zones over two channels, and the map
\* of a controller that never built one
MixMaps == [MixZones -> {0, 1}] \cup {EmptyMap}

\* channel_colors[channel_id] = ... for a channel with or without an entry
put_color(cc, ch, c) ==
    [k \in DOMAIN cc \cup {ch} |-> IF k = ch THEN c ELSE cc[k]]

\* the loop over hue_colors.items()
RECURSIVE channel_colors(_, _, _, _)
channel_colors(hue_colors, m, i, cc) ==
    IF i > Len(hue_colors)
    THEN cc
    ELSE LET zone_id == hue_colors[i].zone
             c == hue_colors[i].color
         IN  IF zone_id \notin DOMAIN m
             THEN channel_colors(hue_colors, m, i + 1, cc)
             ELSE LET channel_id == m[zone_id] IN
                  IF channel_id \in DOMAIN cc
                  THEN channel_colors(hue_colors, m, i + 1,
                          put_color(cc, channel_id,
                              [x |-> (cc[channel_id].x + c.x) \div 2,
                               y |-> (cc[channel_id].y + c.y) \div 2,
                               bri |-> (cc[channel_id].bri + c.bri) \div 2]))
                  ELSE channel_colors(hue_colors, m, i + 1, put_color(cc, channel_id, c))

\* _update_lights over a connected stream: channel_colors is built and, if
\* it holds anything, sent
UpdateLights ==
    /\ pc[1] = "frame"
    /\ is_connected(es)
    /\ es.sequence < MaxSyncFrames
    /\ LET cc == channel_colors(hue, zcm, 1, EmptyMap) IN
       /\ sent' = cc
       /\ IF cc # EmptyMap
          THEN \E w \in WriteOutcomes : es' = send_colors_xy(es, w).es
          ELSE es' = es
    /\ UNCHANGED <<last, seqVars, frameVars, lateVars, syncVars, statsVars, hsVars, hue, layout, chans, zcm,
                   bpos, seen>>

\* A started controller whose loop thread is about to call _update_lights.
MixSpecInit ==
    /\ es = StreamConnected
    /\ last = LastInit
    /\ SeqIdle
    /\ FrameIdle
    /\ running = TRUE
    /\ thread = 1
    /\ pc = [t \in Threads |-> IF t = 1 THEN "frame" ELSE "unborn"]
    /\ mainPc = "idle"
    /\ cap = CaptureInit
    /\ queue = <<>>
    /\ StatsIdle
    /\ HueSyncIdle
    /\ LateIdle
    /\ layout = [rows |-> 1, cols |-> 1]
    /\ chans = <<>>
    /\ zcm \in MixMaps
    /\ zmap = IF zcm = EmptyMap THEN "empty" ELSE "built"
    /\ bpos = -1
    /\ seen = {}
    /\ hue \in HueColors
    /\ sent = EmptyMap

MixNext == UpdateLights

MixSpec == MixSpecInit /\ [][MixNext]_vars

\* The entries of hue whose zone the map sends to channel ch.
ZonesOf(ch) == {i \in DOMAIN hue : hue[i].zone \in DOMAIN zcm /\ zcm[hue[i].zone] = ch}

RECURSIVE SumOver(_, _)
SumOver(I, f) ==
    IF I = {} THEN 0
    ELSE LET i == CHOOSE j \in I : TRUE IN f[i] + SumOver(I \ {i}, f)

\* C19: the colour sent for a channel is the arithmetic mean of the colours
\* of the k zones mapped to it: k times the x (the y) sent is the sum of the
\* zones' x (y), and the integer brightness sent is that mean up to rounding.
C19_SharedChannelGetsMean ==
    \A ch \in DOMAIN sent :
        LET I == ZonesOf(ch)
            k == Cardinality(I)
            sx == SumOver(I, [i \in DOMAIN hue |-> hue[i].color.x])
            sy == SumOver(I, [i \in DOMAIN hue |-> hue[i].color.y])
            sb == SumOver(I, [i \in DOMAIN hue |-> hue[i].color.bri])
        IN  /\ k * sent[ch].x = sx
            /\ k * sent[ch].y = sy
            /\ k * sent[ch].bri - sb < k
            /\ sb - k * sent[ch].bri < k

(***************************************************************************)
(* hue_sync.SyncController.start with ZoneMapping                          *)
(*                                                                         *)
(* The mapping gives every zone a list of light ids. The lists hold no     *)
(* light twice and their order only decides the order of the updates, so   *)
(* they are kept as sets. A light's position is <<x, z>>, or <<>> for None.*)
(***************************************************************************)
MaxLights == 2

LightIds == 1..MaxLights

\* light_info[lid]: is_gradient, whether archetype or name contain 'strip',
\* and the position the entertainment configuration gave the light
LightInfos ==
    {i \in [is_gradient : BOOLEAN, strip : BOOLEAN,
            position : {<<>>, <<-1, 0>>, <<0, 1>>, <<1, 0>>}] :
        i.strip => i.is_gradient}

\* HueBridge.lights and light_info after refresh_devices, for any set of
\* lights
Topologies == UNION {[D -> LightInfos] : D \in SUBSET LightIds}

\* HueBridge.get_light_ids
get_light_ids(light_info) == DOMAIN light_info

\* the bin of a light with coordinates: z > 0.4 top, z < -0.3 bottom,
\* x < -0.4 left, x > 0.4 right, else top
coordinate_bin(pos) ==
    IF 10 * pos[2] > 4 THEN "top"
    ELSE IF 10 * pos[2] < -3 THEN "bottom"
    ELSE IF 10 * pos[1] < -4 THEN "left"
    ELSE IF 10 * pos[1] > 4 THEN "right"
    ELSE "top"

\* the index of a light in a list filled in sorted order
rank(l, lights) == Cardinality({m \in lights : m < l})

\* Step 1 of generate_ambilight_mapping: the lights of one bin
light_bin(edge, available_lights, light_info) ==
    IF light_info = EmptyMap
    THEN {l \in available_lights :
            <<"left", "top", "right", "bottom">>[(rank(l, available_lights) % 4) + 1] = edge}
    ELSE {l \in available_lights :
            /\ l \in DOMAIN light_info
            /\ light_info[l].position # <<>>
            /\ \/ coordinate_bin(light_info[l].position) = edge
               \/ /\ light_info[l].is_gradient
                  /\ 10 * light_info[l].position[2] > -2
                  /\ light_info[l].strip
                  /\ edge \in {"left", "top", "right"}}

clamp_index(i, count) == Max(0, IF i <= count - 1 THEN i ELSE count - 1)

\* Step 2: the zone index of a light that is not a gradient light
zone_index(l, edge, lights, light_info, count) ==
    LET pos == IF l \in DOMAIN light_info THEN light_info[l].position ELSE <<>> IN
    IF pos # <<>> /\ edge \in {"top", "bottom"}
    THEN clamp_index(((pos[1] + 1) * count) \div 2, count)
    ELSE IF pos # <<>> /\ edge \in {"left", "right"}
    THEN clamp_index(((1 - pos[2]) * count) \div 2, count)
    ELSE ((2 * rank(l, lights) + 1) * count) \div (2 * Cardinality(lights))

generate_ambilight_mapping(available_lights, light_info, edge_counts) ==
    LET counts == edge_counts
        zones == UNION {{Zone(e, i) : i \in 0..(counts[e] - 1)} : e \in KnownEdges}
    IN  [z \in zones |->
            IF available_lights = {}
            THEN {}
            ELSE LET lights == light_bin(z.edge, available_lights, light_info) IN
                 {l \in lights :
                    \/ l \in DOMAIN light_info /\ light_info[l].is_gradient
                    \/ /\ ~(l \in DOMAIN light_info /\ light_info[l].is_gradient)
                       /\ zone_index(l, z.edge, lights, light_info, counts[z.edge]) = z.idx}]

\* the top_count, bottom_count, left_count and right_count start() passes
layout_counts(rows, cols) ==
    [top |-> cols, bottom |-> cols,
     left |-> Max(1, rows \div 2), right |-> Max(1, rows \div 2)]

\* ZoneMapping.validate_mapping: the lights of the mapping the bridge does
\* not have
validate_mapping(mapping, available_lights) ==
    {l \in UNION Range(mapping) : l \notin available_lights}

\* ZoneMapping.get_lights_for_zone
get_lights_for_zone(mapping, zone_id) ==
    IF zone_id \in DOMAIN mapping THEN mapping[zone_id] ELSE {}

\* start() up to the spawn of the thread: the mapping it leaves
start_mapping(mapping, light_info, rows, cols) ==
    LET available_lights == get_light_ids(light_info)
        mapping_lights == UNION Range(mapping)
        none_left == /\ mapping_lights # {}
                     /\ ~\E l \in mapping_lights : l \in available_lights
        under_mapped ==
            /\ ~none_left
            /\ \E lid \in available_lights :
                  /\ light_info[lid].is_gradient
                  /\ Cardinality({z \in DOMAIN mapping : lid \in mapping[z]}) <= 1
        is_stale == none_left \/ under_mapped
    IN  IF mapping_lights = {} \/ is_stale
        THEN IF available_lights # {}
             THEN generate_ambilight_mapping(available_lights, light_info,
                                             layout_counts(rows, cols))
             ELSE IF is_stale THEN EmptyMap ELSE mapping
        ELSE mapping

HueSyncStart ==
    /\ mainPc = "idle"
    /\ ~running
    /\ Spawned < MaxThreads
    /\ lmap' = start_mapping(lmap, binfo, layout.rows, layout.cols)
    /\ running' = TRUE
    /\ thread' = Spawned + 1
    /\ pc' = [pc EXCEPT ![Spawned + 1] = "top"]
    /\ UNCHANGED <<es, last, seqVars, frameVars, lateVars, statsVars, mapVars, mixVars, mainPc, cap,
                   queue, zmap, binfo, updated>>

\* One iteration as far as the mapping is concerned: _update_lights
\* addresses every light of every zone of the frame.
HueSyncUpdate(t) ==
    /\ pc[t] = "tick"
    /\ updated' = UNION {get_lights_for_zone(lmap, z) :
                            z \in Range(get_zone_ids(layout.rows, layout.cols))}
    /\ pc' = [pc EXCEPT ![t] = "sleep"]
    /\ UNCHANGED <<es, last, seqVars, frameVars, lateVars, statsVars, mapVars, mixVars, running,
                   thread, mainPc, cap, queue, zmap, lmap, binfo>>

\* the layout of the zone processor in HueSyncSpec
HueLayout == [rows |-> 4, cols |-> 2]

\* The mapping file of an earlier session: the default mapping, or what a
\* start() generated for the lights the bridge had then.
StoredMappings ==
    {DefaultMapping} \cup
    {generate_ambilight_mapping(get_light_ids(p), p,
                                layout_counts(HueLayout.rows, HueLayout.cols)) :
        p \in Topologies}

HueSyncSpecInit ==
    /\ es = StreamInit
    /\ last = LastInit
    /\ SeqIdle
    /\ FrameIdle
    /\ SyncIdle
    /\ StatsIdle
    /\ MixIdle
    /\ LateIdle
    /\ layout = HueLayout
    /\ chans = <<>>
    /\ zcm = EmptyMap
    /\ bpos = -1
    /\ seen = {}
    /\ lmap \in StoredMappings
    /\ binfo \in Topologies
    /\ updated = {}

HueSyncNext ==
    \/ HueSyncStart
    \/ \E t \in Threads : LoopCheck(t) \/ HueSyncUpdate(t) \/ LoopSleep(t)

HueSyncSpec == HueSyncSpecInit /\ [][HueSyncNext]_vars

\* C17: a start() that finds the stored mapping referencing a light the
\* bridge no longer has leaves a mapping rebuilt from the lights the bridge
\* has now: no absent light in it, and with lights on the bridge the mapping
\* generated for them.
C17_StaleMappingRebuiltAtStart ==
    [][(thread' # thread /\ validate_mapping(lmap, get_light_ids(binfo)) # {}) =>
            /\ validate_mapping(lmap', get_light_ids(binfo)) = {}
            /\ get_light_ids(binfo) # {} =>
                  lmap' = generate_ambilight_mapping(get_light_ids(binfo), binfo,
                              layout_counts(layout.rows, layout.cols))]_vars

(***************************************************************************)
(* start() step by step, next to the loop threads that read the map        *)
(*                                                                         *)
(* The caller of start() and a loop thread that outlived a timed-out join  *)
(* interleave at the level of the single dict operations: the clear(),     *)
(* each assignment of the build, each lookup of _update_lights.            *)
(***************************************************************************)

\* start(): `if self.running: return`, the stream is connected, and
\* _build_zone_channel_mapping clears the map and reads the positions
RemapStartClear ==
    /\ mainPc = "idle"
    /\ ~running
    /\ Spawned < MaxThreads
    /\ is_connected(es)
    /\ zcm' = EmptyMap
    /\ zmap' = "empty"
    /\ IF get_channel_positions(chans) = <<>>
       THEN mainPc' = "spawning" /\ bpos' = -1
       ELSE mainPc' = "building" /\ bpos' = 0
    /\ UNCHANGED <<es, last, seqVars, frameVars, lateVars, statsVars, mixVars, hsVars, running,
                   thread, pc, cap, queue, layout, chans, seen>>

\* start() over a stream that is not connected: the map is left as it is
RemapStartSkip ==
    /\ mainPc = "idle"
    /\ ~running
    /\ Spawned < MaxThreads
    /\ ~is_connected(es)
    /\ mainPc' = "spawning"
    /\ UNCHANGED <<es, last, seqVars, frameVars, lateVars, statsVars, mixVars, hsVars, running,
                   thread, pc, cap, queue, zmap, layout, chans, zcm, bpos, seen>>

\* self._zone_channel_map[zone_id] = channel_id for the next zone
RemapStartAssign ==
    /\ mainPc = "building"
    /\ LET zones == mapping_zones(layout.rows, layout.cols)
           zone_id == zones[bpos + 1]
           channel_id == find_best_channel_for_zone(zone_id, get_channel_positions(chans),
                                                    layout.rows, layout.cols)
       IN  /\ zcm' = IF channel_id = NoChannel
                     THEN zcm
                     ELSE [z \in DOMAIN zcm \cup {zone_id} |->
                              IF z = zone_id THEN channel_id ELSE zcm[z]]
           /\ zmap' = IF zcm' = EmptyMap THEN "empty" ELSE "built"
           /\ IF bpos + 1 = Len(zones)
              THEN mainPc' = "spawning" /\ bpos' = -1
              ELSE mainPc' = "building" /\ bpos' = bpos + 1
    /\ UNCHANGED <<es, last, seqVars, frameVars, lateVars, statsVars, mixVars, hsVars, running,
                   thread, pc, cap, queue, layout, chans, seen>>

\* self.running = True and the loop thread of this session
RemapStartSpawn ==
    /\ mainPc = "spawning"
    /\ running' = TRUE
    /\ thread' = Spawned + 1
    /\ pc' = [pc EXCEPT ![Spawned + 1] = "top"]
    /\ mainPc' = "idle"
    /\ UNCHANGED <<es, last, seqVars, frameVars, lateVars, statsVars, mixVars, hsVars, cap, queue,
                   zmap, layout, chans, zcm, bpos, seen>>

\* two channels, left and right of the screen
RemapChannels ==
    <<[id |-> 0, position |-> [k \in {"x"} |-> -1]],
      [id |-> 1, position |-> [k \in {"x"} |-> 1]]>>

\* A controller over a stream that connected and parsed two channels, and
\* that is still connected or has been disconnected since.
RemapSpecInit ==
    /\ es \in {StreamConnected, disconnect(StreamConnected).es}
    /\ last = LastInit
    /\ SeqIdle
    /\ FrameIdle
    /\ SyncIdle
    /\ StatsIdle
    /\ MixIdle
    /\ HueSyncIdle
    /\ LateIdle
    /\ layout = [rows |-> 1, cols |-> 1]
    /\ chans = RemapChannels
    /\ zcm = EmptyMap
    /\ bpos = -1
    /\ seen = {}

RemapNext ==
    \/ RemapStartClear
    \/ RemapStartSkip
    \/ RemapStartAssign
    \/ RemapStartSpawn
    \/ StopBegin
    \/ StopJoined
    \/ StopTimedOut
    \/ StopRelease
    \/ StopReturn
    \/ \E t \in Threads : LoopCheck(t) \/ MapTick(t) \/ LoopSleep(t)

RemapSpec == RemapSpecInit /\ [][RemapNext]_vars

\* C16: the map is never modified while a loop thread is alive, and no loop
\* thread looks zones up in the map between the clear() and the last
\* assignment of a build.
C16_MapFrozenWhileLoopAlive ==
    [][/\ (\E t \in Threads : Alive(t)) => zcm' = zcm
       /\ (\E t \in Threads : pc[t] = "tick" /\ pc'[t] = "sleep") => mainPc # "building"]_vars

(***************************************************************************)
(* ZoneProcessor (src/lumux/zones.py): the zones of a frame                *)
(***************************************************************************)
\* Largest rows / cols value of ZoneSpec (the settings allow 1..64).
MaxGrid == 6

\* Frame sizes (width, height) handed to the zone processor.
FrameSizes == {<<1, 1>>, <<16, 9>>, <<240, 135>>}

\* The keys of the dict _process_ambilight returns. The frame decides the
\* pixel regions and so the colours, never the keys: an empty region
\* averages to nan without raising.
process_ambilight(rows, cols, width, height) ==
    LET top_count == cols
        bottom_count == cols
        left_count == Max(1, rows \div 2)
        right_count == Max(1, rows \div 2)
    IN  {Zone("top", i) : i \in 0..(top_count - 1)}
        \cup {Zone("bottom", i) : i \in 0..(bottom_count - 1)}
        \cup {Zone("left", i) : i \in 0..(left_count - 1)}
        \cup {Zone("right", i) : i \in 0..(right_count - 1)}

\* zone_processor.process_image(screen) on a frame
ProcessImage ==
    /\ \E size \in FrameSizes :
          zkeys' = [rows |-> layout.rows, cols |-> layout.cols,
                    keys |-> process_ambilight(layout.rows, layout.cols,
                                               size[1], size[2])]
    /\ UNCHANGED <<es, last, seqVars, frameVars, syncVars, statsVars, mixVars, hsVars,
                   zoneRest, layout, chans, zcm, bpos, seen>>

\* AppContext.apply_settings: the processor takes the configured grid
ApplyLayout ==
    /\ \E r, c \in 1..MaxGrid : layout' = [rows |-> r, cols |-> c]
    /\ UNCHANGED <<es, last, seqVars, frameVars, syncVars, statsVars, mixVars, hsVars,
                   lateVars, chans, zcm, bpos, seen>>

ZoneSpecInit ==
    /\ es = StreamInit
    /\ last = LastInit
    /\ SeqIdle
    /\ FrameIdle
    /\ SyncIdle
    /\ StatsIdle
    /\ MixIdle
    /\ HueSyncIdle
    /\ LateIdle
    /\ layout \in [rows : 1..MaxGrid, cols : 1..MaxGrid]
    /\ chans = <<>>
    /\ zcm = EmptyMap
    /\ bpos = -1
    /\ seen = {}

ZoneNext == ProcessImage \/ ApplyLayout

ZoneSpec == ZoneSpecInit /\ [][ZoneNext]_vars

\* The zone keys of an R x C edge layout as the configuration names them.
EdgeKeys(R, C) ==
    {Zone("top", i) : i \in 0..(C - 1)} \cup {Zone("bottom", i) : i \in 0..(C - 1)}
    \cup {Zone("left", i) : i \in 0..(R - 1)} \cup {Zone("right", i) : i \in 0..(R - 1)}

\* C21: for rows = R and cols = C the zone processor yields, for every
\* frame, exactly the 2C + 2R keys top_0..top_{C-1}, bottom_0..bottom_{C-1},
\* left_0..left_{R-1}, right_0..right_{R-1}.
C21_ZoneKeysOfEdgeLayout ==
    zkeys.rows > 0 =>
        /\ zkeys.keys = EdgeKeys(zkeys.rows, zkeys.cols)
        /\ Cardinality(zkeys.keys) = 2 * zkeys.cols + 2 * zkeys.rows

(***************************************************************************)
(* The loop's target rate (src/lumux/sync.py 196-207) and the settings'    *)
(* own clamp (src/config/settings_manager.py 201-208)                      *)
(***************************************************************************)
\* Largest fps value a settings file or caller stores; the smallest is
\* below zero by as much as this is above 120.
MaxFps == 121
FpsSettings == (120 - MaxFps)..MaxFps

\* SettingsManager._validate_settings, the fps line
validate_fps(v) == Max2(1, Min2(60, v))

MutTargetWithoutFloor(v) == Min2(60, v)

\* _sync_loop: fps_target = int(settings.fps), then max(1, min(60, .)).
\* fps is an int (SyncSettings.fps: int), so int() leaves it as it is.
loop_fps_target(v) == Max2(1, Min2(60, v))

\* A caller stores an fps value in the settings object the loop reads
\* (SettingsDialog stores int(fps_row.get_value()); a settings file any int).
ConfigureFps ==
    /\ \E v \in FpsSettings : fps' = v
    /\ UNCHANGED <<es, last, seqVars, frameVars, syncVars, statsVars, mapVars, mixVars, hsVars,
                   fpsRest, fpsTarget>>

\* SettingsManager.load: _validate_settings clamps what the file held
ValidateSettings ==
    /\ fps' = validate_fps(fps)
    /\ UNCHANGED <<es, last, seqVars, frameVars, syncVars, statsVars, mapVars, mixVars, hsVars,
                   fpsRest, fpsTarget>>

\* One loop iteration's computation of fps_target (target_delay = 1 / it)
LoopTarget ==
    /\ fpsTarget' = loop_fps_target(fps)
    /\ UNCHANGED <<es, last, seqVars, frameVars, syncVars, statsVars, mapVars, mixVars, hsVars,
                   fpsRest, fps>>

FpsSpecInit ==
    /\ es = StreamInit
    /\ last = LastInit
    /\ SeqIdle
    /\ FrameIdle
    /\ SyncIdle
    /\ MoreIdle

FpsNext == ConfigureFps \/ ValidateSettings \/ LoopTarget

FpsSpec == FpsSpecInit /\ [][FpsNext]_vars

\* C22: the loop's effective target is clamp(fps, 1, 60) for every
\* configured fps: 60 for fps = 120, 1 for fps = 0.
C22_LoopTargetIsClampedFps ==
    [][LoopTarget =>
          /\ fps < 1 => fpsTarget' = 1
          /\ fps > 60 => fpsTarget' = 60
          /\ fps \in 1..60 => fpsTarget' = fps
          /\ fps = 120 => fpsTarget' = 60
          /\ fps = 0 => fpsTarget' = 1]_vars

\* a loop iteration has run with fps = 0 stored, and its target is 1
C22_Witness == fps = 0 /\ fpsTarget = 1

(***************************************************************************)
(* BlackBarDetector (src/lumux/black_bar_detector.py)                      *)
(*                                                                         *)
(* A frame is its size and, per axis, which columns and rows have a mean   *)
(* luminance at or below the threshold. smooth_factor is a number of       *)
(* tenths and the smoothing is computed in exact arithmetic.               *)
(***************************************************************************)
\* Largest detection rate of DetSpec, in frames (the settings allow 1..120).
MaxRate == 2

\* Frame sizes (width, height) of DetSpec.
DetSizes == {<<8, 4>>, <<9, 4>>, <<16, 4>>}

\* smooth_factor values, in tenths
SmoothFactors == {3, 10}

\* Lengths of the dark run at either end of an axis of n pixels.
BarChoices(n) == {0, n \div 2 - 1, n}

\* The dark runs (leading, trailing) an axis of n pixels can show: the whole
\* axis dark, or something brighter between the two runs.
BarPairs(n) ==
    {p \in BarChoices(n) \X BarChoices(n) : p[1] + p[2] < n \/ (p[1] = n /\ p[2] = n)}

\* luminance[i] <= threshold for the pixels 1..n of an axis with dark runs
\* of a pixels at the start and b at the end
dark_profile(n, a, b) == [i \in 1..n |-> i <= a \/ i > n - b]

\* A frame: its size and the dark runs of its columns and rows. A frame is
\* black in both axes or in neither.
Frames ==
    UNION {{f \in [size : {s}, cols : BarPairs(s[1]), rows : BarPairs(s[2])] :
               (f.cols[1] = s[1]) = (f.rows[1] = s[2])} : s \in DetSizes}

\* _find_black_region: the number of contiguous dark pixels from one end
RECURSIVE find_black_region(_, _, _)
find_black_region(dark, from_start, count) ==
    IF count >= Len(dark)
    THEN count
    ELSE LET i == IF from_start THEN count + 1 ELSE Len(dark) - count IN
         IF dark[i]
         THEN find_black_region(dark, from_start, count + 1)
         ELSE count

\* int(): truncation toward zero of num / den, den > 0
int_trunc(num, den) == IF num >= 0 THEN num \div den ELSE -((-num) \div den)

\* _detect_bars, one axis: "if width - left - right < min_width: reset"
\* with min_width = int(width * 0.5)
reset_if_too_much(size, bar_a, bar_b) ==
    LET min_size == int_trunc(size * 5, 10) IN
    IF size - bar_a - bar_b < min_size THEN <<0, 0>> ELSE <<bar_a, bar_b>>

\* _detect_bars, one axis: the bars kept after the reset and the clamp to
\* max_crop = size // 2 - 1
axis_bars(size, bar_a, bar_b) ==
    LET kept == reset_if_too_much(size, bar_a, bar_b)
        max_crop == size \div 2 - 1
    IN  <<Min2(kept[1], max_crop), Min2(kept[2], max_crop)>>

\* _detect_bars: the new _target_crop for a frame
detect_bars(cols, rows, width, height) ==
    LET top == find_black_region(rows, TRUE, 0)
        bottom == find_black_region(rows, FALSE, 0)
        left == find_black_region(cols, TRUE, 0)
        right == find_black_region(cols, FALSE, 0)
        x == axis_bars(width, left, right)
        y == axis_bars(height, top, bottom)
    IN  CropRegion(x[1], y[1], width - x[2], height - y[2])

\* int(current + smooth_factor * (target - current))
smooth_edge(current, target, factor) ==
    int_trunc(10 * current + factor * (target - current), 10)

\* _apply_smoothing
apply_smoothing(cur, tgt, factor, width, height) ==
    LET l1 == Max2(0, Min2(width - 1, smooth_edge(cur.left, tgt.left, factor)))
        t1 == Max2(0, Min2(height - 1, smooth_edge(cur.top, tgt.top, factor)))
        r1 == Max2(1, Min2(width, smooth_edge(cur.right, tgt.right, factor)))
        b1 == Max2(1, Min2(height, smooth_edge(cur.bottom, tgt.bottom, factor)))
        l2 == IF r1 <= l1 THEN 0 ELSE l1
        r2 == IF r1 <= l1 THEN width ELSE r1
        t2 == IF b1 <= t1 THEN 0 ELSE t1
        b2 == IF b1 <= t1 THEN height ELSE b1
        l3 == IF r2 - l2 < 2 THEN 0 ELSE l2
        r3 == IF r2 - l2 < 2 THEN width ELSE r2
        t3 == IF b2 - t2 < 2 THEN 0 ELSE t2
        b3 == IF b2 - t2 < 2 THEN height ELSE b2
    IN  CropRegion(l3, t3, r3, b3)

\* _should_crop: abs(crop - full) / full > 0.02 on either axis
should_crop(cur, width, height) ==
    LET dw == IF cur.right - cur.left >= width THEN cur.right - cur.left - width
              ELSE width - (cur.right - cur.left)
        dh == IF cur.bottom - cur.top >= height THEN cur.bottom - cur.top - height
              ELSE height - (cur.bottom - cur.top)
    IN  50 * dw > width \/ 50 * dh > height

\* process(), first part: the crops are initialised on the first frame and
\* detection runs when the frame counter reaches the rate. The _target_crop
\* that results.
process_target(d, f) ==
    IF d.counter + 1 >= d.rate
    THEN detect_bars(dark_profile(f.size[1], f.cols[1], f.cols[2]),
                     dark_profile(f.size[2], f.rows[1], f.rows[2]),
                     f.size[1], f.size[2])
    ELSE IF d.cur.left = 0 /\ d.cur.right = 0
         THEN CropRegion(0, 0, f.size[1], f.size[2])
         ELSE d.tgt

\* process(), second part: _apply_smoothing toward that target
process_crop(d, f, target) ==
    apply_smoothing(IF d.cur.left = 0 /\ d.cur.right = 0
                    THEN CropRegion(0, 0, f.size[1], f.size[2])
                    ELSE d.cur,
                    target, d.factor, f.size[1], f.size[2])

\* process(), last part: the reset of an empty crop and the decision to
\* crop. The detector afterwards and the box of the frame that the returned
\* image covers.
process_result(d, f, target, crop) ==
    LET full == CropRegion(0, 0, f.size[1], f.size[2])
        detect == d.counter + 1 >= d.rate
        invalid == crop.right - crop.left <= 0 \/ crop.bottom - crop.top <= 0
    IN  [det |-> [d EXCEPT !.size = f.size,
                           !.counter = IF detect THEN 0 ELSE d.counter + 1,
                           !.cur = IF invalid THEN full ELSE crop,
                           !.tgt = IF invalid THEN full ELSE target],
         detected |-> detect,
         box |-> IF ~invalid /\ should_crop(crop, f.size[1], f.size[2]) THEN crop ELSE full]

\* process() of an enabled detector on a frame
process(d, f) ==
    {process_result(d, f, t[1], t[2]) :
        t \in {<<tg, process_crop(d, f, tg)>> : tg \in {process_target(d, f)}}}

\* ScreenCapture._process_image hands a frame to the detector
ProcessFrame ==
    /\ \E f \in Frames : \E p \in process(det, f) :
          /\ det' = p.det
          /\ shot' = [size |-> f.size, box |-> p.box]
          /\ bars' = IF p.detected
                     THEN [size |-> f.size, left |-> f.cols[1], right |-> f.cols[2],
                           top |-> f.rows[1], bottom |-> f.rows[2]]
                     ELSE bars
    /\ UNCHANGED <<es, last, seqVars, frameVars, syncVars, statsVars, mapVars, mixVars, hsVars,
                   detRest>>

DetSpecInit ==
    /\ es = StreamInit
    /\ last = LastInit
    /\ SeqIdle
    /\ FrameIdle
    /\ SyncIdle
    /\ StatsIdle /\ MapIdle /\ MixIdle /\ HueSyncIdle
    /\ ZoneIdle /\ FpsIdle /\ ColorIdle /\ ToneIdle /\ SlotIdle /\ ModeIdle /\ CountIdle /\ WorkerIdle
    /\ \E factor \in SmoothFactors, rate \in 1..MaxRate : det = DetectorInit(factor, rate)
    /\ shot = NoShot
    /\ bars = NoBars

DetNext == ProcessFrame

DetSpec == DetSpecInit /\ [][DetNext]_vars

\* C24: whatever the frames (sizes changing between ticks included) and
\* the detection results, the crop applied to a frame keeps at least 50% of
\* the frame's width and of its height, and lies inside the frame without
\* being inverted: 0 <= left < right <= width, 0 <= top < bottom <= height.
C24_AppliedCropKeepsHalfInsideFrame ==
    shot.size # <<0, 0>> =>
        /\ 0 <= shot.box.left /\ shot.box.left < shot.box.right
        /\ shot.box.right <= shot.size[1]
        /\ 0 <= shot.box.top /\ shot.box.top < shot.box.bottom
        /\ shot.box.bottom <= shot.size[2]
        /\ 2 * (shot.box.right - shot.box.left) >= shot.size[1]
        /\ 2 * (shot.box.bottom - shot.box.top) >= shot.size[2]

\* the part of it that does not speak of the 50%
CropInsideFrame ==
    shot.size # <<0, 0>> =>
        /\ 0 <= shot.box.left /\ shot.box.left < shot.box.right
        /\ shot.box.right <= shot.size[1]
        /\ 0 <= shot.box.top /\ shot.box.top < shot.box.bottom
        /\ shot.box.bottom <= shot.size[2]

(***************************************************************************)
(* _detect_bars alone, on every frame up to a size                         *)
(***************************************************************************)
\* Largest frame width of BarsSpec.
MaxSide == 9

\* Frame heights of BarsSpec.
BarHeights == {4, 5}

\* every pair of dark runs an axis of n pixels can show
AllBarPairs(n) ==
    {p \in (0..n) \X (0..n) : p[1] + p[2] < n \/ (p[1] = n /\ p[2] = n)}

\* the frames _detect_bars is called on, as _find_black_region measures them
MeasuredFrames ==
    UNION {{[size |-> <<w, h>>, left |-> c[1], right |-> c[2], top |-> r[1], bottom |-> r[2]] :
               c \in AllBarPairs(w), r \in AllBarPairs(h)} : w \in 2..MaxSide, h \in BarHeights}

\* _detect_bars(image, width, height) on the frame at hand
DetectBars ==
    /\ det' = [det EXCEPT !.size = bars.size,
                          !.tgt = detect_bars(dark_profile(bars.size[1], bars.left, bars.right),
                                              dark_profile(bars.size[2], bars.top, bars.bottom),
                                              bars.size[1], bars.size[2])]
    /\ UNCHANGED <<es, last, seqVars, frameVars, syncVars, statsVars, mapVars, mixVars, hsVars,
                   detRest, bars, shot>>

BarsSpecInit ==
    /\ es = StreamInit
    /\ last = LastInit
    /\ SeqIdle
    /\ FrameIdle
    /\ SyncIdle
    /\ StatsIdle /\ MapIdle /\ MixIdle /\ HueSyncIdle
    /\ ZoneIdle /\ FpsIdle /\ ColorIdle /\ ToneIdle /\ SlotIdle /\ ModeIdle /\ CountIdle /\ WorkerIdle
    /\ det = DetectorInit(3, 1)
    /\ shot = NoShot
    /\ bars \in MeasuredFrames

BarsNext == DetectBars

BarsSpec == BarsSpecInit /\ [][BarsNext]_vars

\* C25: when the detected left and right bars together would leave less
\* than 50% of the frame's width, the detection result has left = right = 0
\* (the target spans the whole width), however dark the columns are; the
\* same for top, bottom and the height.
C25_BarsBeyondHalfAreDropped ==
    det.size # <<0, 0>> =>
        /\ 2 * (bars.size[1] - bars.left - bars.right) < bars.size[1]
              => det.tgt.left = 0 /\ det.tgt.right = bars.size[1]
        /\ 2 * (bars.size[2] - bars.top - bars.bottom) < bars.size[2]
              => det.tgt.top = 0 /\ det.tgt.bottom = bars.size[2]

(***************************************************************************)
(* The detector in front of a picture that does not change: every frame    *)
(* has the same size and the same dark runs, so every detection gives the  *)
(* same target. The detector starts fresh or settled on an earlier scene.  *)
(***************************************************************************)
\* the detector after it settled on the target of frame f
settled(d, f) ==
    LET t == detect_bars(dark_profile(f.size[1], f.cols[1], f.cols[2]),
                         dark_profile(f.size[2], f.rows[1], f.rows[2]),
                         f.size[1], f.size[2])
    IN  [d EXCEPT !.size = f.size, !.cur = t, !.tgt = t]

\* process() on the next frame of the unchanging picture
HoldFrame ==
    /\ \E p \in process(det, [size |-> bars.size, cols |-> <<bars.left, bars.right>>,
                              rows |-> <<bars.top, bars.bottom>>]) :
          /\ det' = p.det
          /\ shot' = [size |-> bars.size, box |-> p.box]
    /\ UNCHANGED <<es, last, seqVars, frameVars, syncVars, statsVars, mapVars, mixVars, hsVars,
                   detRest, bars>>

HoldSpecInit ==
    /\ es = StreamInit
    /\ last = LastInit
    /\ SeqIdle
    /\ FrameIdle
    /\ SyncIdle
    /\ StatsIdle /\ MapIdle /\ MixIdle /\ HueSyncIdle
    /\ ZoneIdle /\ FpsIdle /\ ColorIdle /\ ToneIdle /\ SlotIdle /\ ModeIdle /\ CountIdle /\ WorkerIdle
    /\ shot = NoShot
    /\ \E f \in Frames :
          /\ bars = [size |-> f.size, left |-> f.cols[1], right |-> f.cols[2],
                     top |-> f.rows[1], bottom |-> f.rows[2]]
          /\ \E factor \in SmoothFactors, rate \in 1..MaxRate :
                \/ det = DetectorInit(factor, rate)
                \/ \E g \in Frames :
                      g.size = f.size /\ det = settled(DetectorInit(factor, rate), g)

HoldNext == HoldFrame

HoldSpec == HoldSpecInit /\ [][HoldNext]_vars

\* The sync loop hands the detector a frame on every tick.
FairHoldSpec == HoldSpec /\ WF_vars(HoldFrame)

\* an edge stays between where it was and its target
Toward(old, new, target) ==
    IF old <= target THEN old <= new /\ new <= target
    ELSE target <= new /\ new <= old

\* a frame that left the target crop as it was
TargetHeld == det.size # <<0, 0>> /\ det'.size = det.size /\ det'.tgt = det.tgt

CropAtTarget == det.size # <<0, 0>> /\ det.cur = det.tgt

\* C23: while the target crop stays the same, every frame moves each edge
\* of the current crop toward its target and never past it, and after
\* finitely many frames the current crop is the target.
C23_CropConvergesMonotonically ==
    /\ [][TargetHeld =>
             /\ Toward(det.cur.left, det'.cur.left, det.tgt.left)
             /\ Toward(det.cur.right, det'.cur.right, det.tgt.right)
             /\ Toward(det.cur.top, det'.cur.top, det.tgt.top)
             /\ Toward(det.cur.bottom, det'.cur.bottom, det.tgt.bottom)]_vars
    /\ <>CropAtTarget

\* the part of it that holds: no edge moves away from or past its target
CropMovesToward ==
    [][TargetHeld =>
          /\ Toward(det.cur.left, det'.cur.left, det.tgt.left)
          /\ Toward(det.cur.right, det'.cur.right, det.tgt.right)
          /\ Toward(det.cur.top, det'.cur.top, det.tgt.top)
          /\ Toward(det.cur.bottom, det'.cur.bottom, det.tgt.bottom)]_vars

(***************************************************************************)
(* ColorAnalyzer.apply_smoothing (src/lumux/colors.py).  A colour is the   *)
(* xy pair and the brightness of a zone.  x and y are floats in the code:  *)
(* here they are fixed-point numbers in units of 1/XYUnit, every result    *)
(* rounded to the nearest unit, which is what floating point does at the   *)
(* scale of its last bit.  The brightness is an int and int() truncates.   *)
(* The factor is in tenths.                                                *)
(***************************************************************************)
\* the zones apply_smoothing is followed for
SmoothZones == {Zone("top", 0), Zone("left", 0)}

\* settings.smoothing_factor, kept in 0.1 .. 1.0 by _validate_settings
ColorFactors == {1, 3, 10}

\* prev + factor * (curr - prev) in floating point: the nearest unit
smooth_float(prev, curr, factor) ==
    (2 * (10 * prev + factor * (curr - prev)) + 10) \div 20

\* int(prev_bri + factor * (curr_bri - prev_bri))
smooth_bri(prev, curr, factor) ==
    int_trunc(10 * prev + factor * (curr - prev), 10)

\* the body of the loop over current.items()
smooth_value(previous_colors, zone_id, curr_value, factor) ==
    IF zone_id \in DOMAIN previous_colors
    THEN LET prev == previous_colors[zone_id] IN
         [x |-> smooth_float(prev.x, curr_value.x, factor),
          y |-> smooth_float(prev.y, curr_value.y, factor),
          bri |-> smooth_bri(prev.bri, curr_value.bri, factor)]
    ELSE curr_value

\* apply_smoothing: the smoothed dict, in the order of current
smoothed_colors(previous_colors, current, factor) ==
    [i \in DOMAIN current |->
        [zone |-> current[i].zone,
         color |-> smooth_value(previous_colors, current[i].zone, current[i].color, factor)]]

\* a dict of zone colours as a function of the zone
as_dict(colors) ==
    [z \in {colors[i].zone : i \in DOMAIN colors} |->
        colors[CHOOSE i \in DOMAIN colors : colors[i].zone = z].color]

\* the hue_colors dicts over the followed zones, in either order
SmoothTargets ==
    {h \in UNION {[1..n -> [zone : SmoothZones, color : Palette]] : n \in 1..2} :
        \A i, j \in DOMAIN h : i # j => h[i].zone # h[j].zone}

\* what earlier calls can have left in previous_colors
SmoothMemories ==
    UNION {[Z -> Palette] : Z \in SUBSET SmoothZones}

\* apply_smoothing(current, factor) with the same current as before:
\* self.previous_colors = smoothed.copy()
SmoothCall ==
    /\ prevc' = as_dict(smoothed_colors(prevc, goal, sfac))
    /\ UNCHANGED <<es, last, seqVars, frameVars, syncVars, statsVars, mapVars, mixVars,
                   hsVars, colRest, goal, sfac>>

\* An analyzer with any memory, a target that stays and any factor.
SmoothSpecInit ==
    /\ es = StreamInit
    /\ last = LastInit
    /\ SeqIdle
    /\ FrameIdle
    /\ SyncIdle
    /\ StatsIdle /\ MapIdle /\ MixIdle /\ HueSyncIdle
    /\ ZoneIdle /\ FpsIdle /\ DetIdle /\ ToneIdle /\ SlotIdle /\ ModeIdle /\ CountIdle /\ WorkerIdle
    /\ prevc \in SmoothMemories
    /\ goal \in SmoothTargets
    /\ sfac \in ColorFactors

SmoothNext == SmoothCall

SmoothSpec == SmoothSpecInit /\ [][SmoothNext]_vars

\* the loop calls apply_smoothing on every tick for as long as it runs
FairSmoothSpec == SmoothSpec /\ WF_vars(SmoothCall)

\* every zone of the target has the target's colour
ColorAtTarget == prevc = as_dict(goal)

\* a call moved every component of an already remembered zone toward the
\* target, not past it
MovedToward ==
    \A z \in DOMAIN prevc \cap DOMAIN prevc' :
        /\ Toward(prevc[z].x, prevc'[z].x, as_dict(goal)[z].x)
        /\ Toward(prevc[z].y, prevc'[z].y, as_dict(goal)[z].y)
        /\ Toward(prevc[z].bri, prevc'[z].bri, as_dict(goal)[z].bri)

\* C26: repeated apply_smoothing calls with a constant target and a factor
\* in (0, 1] move x, y and brightness of a zone monotonically toward the
\* target without overshooting, and after finitely many calls every
\* component has the target's value.
C26_SmoothingConvergesToTarget ==
    /\ [][MovedToward]_vars
    /\ <>ColorAtTarget

\* the part of it that holds: no component moves away from or past the target
ColorMovesToward == [][MovedToward]_vars

(***************************************************************************)
(* The colour path of one tick (SyncController._process_frame after the    *)
(* zone processor): analyze_zones_batch, apply_smoothing, _update_lights,  *)
(* inside the controller's life cycle.  brightness_scale is in halves.     *)
(***************************************************************************)
\* Ticks followed in one session.
MaxTicks == 2

\* The pixels a zone can show: black, white, full red.  For a grey and for
\* a pure primary the xy of rgb_to_xy does not depend on the intensity, so
\* it can be given without the power function.
TonePixels == {<<0, 0, 0>>, <<255, 255, 255>>, <<255, 0, 0>>}

\* brightness_scale in [0, 2] and gamma, as _validate_settings leaves them
ToneSettings ==
    [brightness_scale : {0, 2, 4}, gamma : {1, 2}]

\* _apply_gamma, one channel: int(round((channel / 255.0) ** gamma * 255.0))
apply_gamma(channel, gamma) ==
    IF gamma = 1 THEN channel ELSE (2 * channel * channel + 255) \div 510

\* rgb_to_xy in thousandths: (0.3227, 0.3290) for black, X / (X + Y + Z) and
\* Y / (X + Y + Z) of the matrix rows for a grey, of its column for a primary
rgb_to_xy(r, g, b) ==
    CASE r = g /\ g = b -> <<323, 329>>
      [] g = 0 /\ b = 0 -> <<701, 299>>
      [] r = 0 /\ g = 0 -> <<136, 40>>

\* a float in [0, 1] as a fixed-point number
xy_units(thousandths) == (thousandths * XYUnit + 500) \div 1000

\* the brightness without max(1, min(254, ...))
MutBrightnessUnclamped(r, g, b, scale, slip) ==
    ((1063 * r + 3576 * g + 361 * b) * 127 * scale) \div (5000 * 255)

\* _calculate_brightness: int((luminance / 255.0) * 254.0 * scale), then
\* max(1, min(254, ...)), with luminance = 0.2126 r + 0.7152 g + 0.0722 b
\* and the scale in halves.  The product is computed in floating point: where
\* the exact value is a whole number the float can lie just below it (white
\* at scale 1.0 gives 253), which is the slip.
calculate_brightness(r, g, b, scale, slip) ==
    LET num == (1063 * r + 3576 * g + 361 * b) * 127 * scale
        den == 5000 * 255
        brightness == IF num % den = 0 /\ slip THEN num \div den - 1 ELSE num \div den
    IN  Max2(1, Min2(254, brightness))

\* analyze_zone
analyze_zone(rgb, settings, slip) ==
    LET r == apply_gamma(rgb[1], settings.gamma)
        g == apply_gamma(rgb[2], settings.gamma)
        b == apply_gamma(rgb[3], settings.gamma)
        xy == rgb_to_xy(r, g, b)
    IN  [x |-> xy_units(xy[1]), y |-> xy_units(xy[2]),
         bri |-> calculate_brightness(r, g, b, settings.brightness_scale, slip)]

\* analyze_zones_batch over the zones of a frame, in the order of zone_colors
analyze_zones_batch(zone_ids, zone_colors, settings, slip) ==
    [i \in DOMAIN zone_ids |->
        [zone |-> zone_ids[i], color |-> analyze_zone(zone_colors[i], settings, slip)]]

\* zone_colors of a frame: the same pixel value for every zone, or white
\* for the zones at odd places of the dict and another value for the rest
ToneFrames(zone_ids) ==
    {[i \in DOMAIN zone_ids |-> IF i % 2 = 1 THEN p[1] ELSE p[2]] :
        p \in {q \in TonePixels \X TonePixels : q[1] = q[2] \/ q[1] = <<255, 255, 255>>}}

\* The channels of the configuration: one lamp in the middle, or one on
\* either side.
ToneChannels ==
    {<<[id |-> 0, position |-> [x |-> 1, y |-> 1, z |-> 1]]>>,
     <<[id |-> 0, position |-> [x |-> -1, y |-> 1, z |-> -1]],
       [id |-> 1, position |-> [x |-> 1, y |-> 1, z |-> 1]]>>}

\* start(): nothing of the colour analyzer is touched
ToneStart ==
    /\ mainPc = "idle"
    /\ ~running
    /\ Spawned < MaxThreads
    /\ zcm' = IF is_connected(es)
              THEN build_zone_channel_mapping(chans, layout.rows, layout.cols)
              ELSE zcm
    /\ zmap' = IF zcm' = EmptyMap THEN "empty" ELSE "built"
    /\ running' = TRUE
    /\ thread' = Spawned + 1
    /\ pc' = [pc EXCEPT ![Spawned + 1] = "top"]
    /\ since' = 0
    /\ UNCHANGED <<es, last, seqVars, frameVars, statsVars, mixVars, hsVars, mainPc, cap,
                   queue, layout, chans, bpos, seen, toneRest, tone>>

\* _process_frame with a captured frame: analysis, smoothing, _update_lights
ToneTick(t) ==
    /\ pc[t] = "tick"
    /\ since < MaxTicks
    /\ \E f \in ToneFrames(get_zone_ids(layout.rows, layout.cols)), slip \in BOOLEAN :
          LET hue_colors == analyze_zones_batch(get_zone_ids(layout.rows, layout.cols),
                                                f, tone, slip)
              smoothed == smoothed_colors(prevc, hue_colors, sfac)
              cc == channel_colors(smoothed, zcm, 1, EmptyMap)
          IN  /\ goal' = hue_colors
              /\ hue' = smoothed
              /\ prevc' = as_dict(smoothed)
              /\ IF is_connected(es)
                 THEN /\ sent' = cc
                      /\ IF cc # EmptyMap
                         THEN \E w \in WriteOutcomes : es' = send_colors_xy(es, w).es
                         ELSE es' = es
                 ELSE UNCHANGED <<sent, es>>
    /\ since' = since + 1
    /\ pc' = [pc EXCEPT ![t] = "sleep"]
    /\ UNCHANGED <<last, seqVars, frameVars, statsVars, hsVars, running, thread, mainPc,
                   cap, queue, zmap, layout, chans, zcm, bpos, seen, zoneVars, fpsVars,
                   detVars, slotVars, modeVars, countVars, workerVars, sfac,
                   tone>>

\* A controller over a connected stream, not started yet, with any of the
\* settings.
ToneSpecInit ==
    /\ es = StreamConnected
    /\ last = LastInit
    /\ SeqIdle
    /\ FrameIdle
    /\ SyncIdle
    /\ StatsIdle /\ MixIdle /\ HueSyncIdle
    /\ ZoneIdle /\ FpsIdle /\ DetIdle /\ SlotIdle /\ ModeIdle /\ CountIdle /\ WorkerIdle
    /\ layout = [rows |-> 1, cols |-> 1]
    /\ chans \in ToneChannels
    /\ zcm = EmptyMap
    /\ bpos = -1
    /\ seen = {}
    /\ prevc = EmptyMap
    /\ goal = <<>>
    /\ sfac \in ColorFactors
    /\ tone \in ToneSettings
    /\ since = 0

\* one session: start() and the loop
ToneNext ==
    \/ ToneStart
    \/ \E t \in Threads : LoopCheck(t) \/ ToneTick(t) \/ LoopSleep(t)

ToneSpec == ToneSpecInit /\ [][ToneNext]_vars

\* The same controller with the default settings and one lamp.
RestartSpecInit ==
    /\ ToneSpecInit
    /\ Len(chans) = 1
    /\ sfac = 3
    /\ tone = [brightness_scale |-> 2, gamma |-> 1]

\* sessions one after the other: start(), the loop, and stop() with a
\* join that the loop thread answers in time
RestartNext ==
    \/ ToneStart
    \/ \E t \in Threads : LoopCheck(t) \/ ToneTick(t) \/ LoopSleep(t)
    \/ StopBegin
    \/ StopJoined
    \/ StopRelease
    \/ StopReturn

RestartSpec == RestartSpecInit /\ [][RestartNext]_vars

\* a step that is a start()
StartStep == ~running /\ running'

\* C27: at every sync start the colour analyzer's smoothing memory is empty,
\* so in the first tick after start() every zone is first-seen and its
\* colour passes through unsmoothed, also after an earlier session.
C27_StartClearsSmoothingMemory ==
    /\ [][StartStep => prevc' = EmptyMap]_vars
    /\ [](since = 1 => hue = goal)

\* C29: every brightness the tick hands to the transport lies in 0..254,
\* and every brightness the analysis or the smoothing yields in 1..254, for
\* any pixel, brightness_scale in [0, 2], any smoothing factor and any
\* number of zones averaged into one channel.
C29_BrightnessStaysInRange ==
    /\ \A ch \in DOMAIN sent : sent[ch].bri \in 0..254
    /\ \A i \in DOMAIN goal : goal[i].color.bri \in 1..254
    /\ \A i \in DOMAIN hue : hue[i].color.bri \in 1..254

\* the second tick of a session at brightness_scale 2.0: the analysis
\* clamped a zone to 254, the smoothing changed the colours, and four zones
\* of different brightness were averaged into one channel
C29_Witness ==
    /\ since = 2
    /\ tone.brightness_scale = 4
    /\ hue # goal
    /\ \E i \in DOMAIN goal : goal[i].color.bri = 254
    /\ \E i, j \in DOMAIN hue : hue[i].color.bri # hue[j].color.bri
    /\ Cardinality(DOMAIN zcm) = 4
    /\ Cardinality(DOMAIN sent) = 1

(***************************************************************************)
(* ScreenCapture: the single-slot frame buffer between the GStreamer       *)
(* streaming thread (_on_new_sample) and the loop thread (capture).        *)
(* Frames are numbered in the order the appsink delivers them.  Every      *)
(* access to _latest_frame of the two threads is a `with _frame_lock`      *)
(* block around one read or one write, which is one step here.  The        *)
(* capture has no black-bar detector, _process_image returns the frame.    *)
(***************************************************************************)
\* Frames the pipeline delivers in one behaviour.
MaxSamples == 4

\* a queue of one: the frame is dropped while an earlier one is in the slot
MutKeepEarlierFrame(latest_frame, image) ==
    IF latest_frame = 0 THEN image ELSE latest_frame

\* with self._frame_lock: self._latest_frame = frame
store_frame(latest_frame, image) == image

\* _on_new_sample
PublishSample ==
    /\ cap.prun
    /\ buf.pub < MaxSamples
    /\ buf' = [slot |-> store_frame(buf.slot, buf.pub + 1), pub |-> buf.pub + 1]
    /\ cap' = [cap EXCEPT !.frame = TRUE]
    /\ UNCHANGED <<es, last, seqVars, frameVars, statsVars, mapVars, mixVars, hsVars,
                   running, thread, pc, mainPc, queue, zmap, slotRest, call>>

\* capture() up to the first read: `if self._pipeline_running` and, if it
\* does not, _setup_portal_session and _start_pipeline
CaptureEnter ==
    /\ call.pc = "idle"
    /\ IF cap.prun
       THEN /\ call' = [call EXCEPT !.pc = "read", !.had = buf.slot # 0, !.waited = FALSE]
            /\ cap' = cap
       ELSE \E po \in PortalOutcomes, so \in PipelineOutcomes :
               LET p == IF ~cap.node THEN setup_portal_session(cap, po)
                        ELSE [cap |-> cap, ret |-> TRUE]
                   q == IF p.ret THEN start_pipeline(p.cap, so) ELSE p
               IN  /\ cap' = q.cap
                   /\ call' = IF q.ret
                              THEN [call EXCEPT !.pc = "wait", !.had = FALSE,
                                                !.waited = TRUE]
                              ELSE [call EXCEPT !.prev = call.ret, !.ret = 0]
    /\ UNCHANGED <<es, last, seqVars, frameVars, statsVars, mapVars, mixVars, hsVars,
                   running, thread, pc, mainPc, queue, zmap, slotRest, buf>>

\* with self._frame_lock: frame = self._latest_frame; `if frame:` goes to
\* the copy, an empty slot to the wait loop (the portal and the pipeline
\* are there)
CaptureRead ==
    /\ call.pc = "read"
    /\ call' = IF buf.slot # 0
               THEN [call EXCEPT !.pc = "copy", !.frame = buf.slot, !.newest = buf.pub]
               ELSE [call EXCEPT !.pc = "wait", !.waited = TRUE]
    /\ UNCHANGED <<es, last, seqVars, frameVars, statsVars, mapVars, mixVars, hsVars,
                   syncVars, slotRest, buf>>

\* one round of the wait loop that finds a frame; time.sleep(0.01) otherwise
CaptureWait ==
    /\ call.pc = "wait"
    /\ buf.slot # 0
    /\ call' = [call EXCEPT !.pc = "copy", !.frame = buf.slot, !.newest = buf.pub]
    /\ UNCHANGED <<es, last, seqVars, frameVars, statsVars, mapVars, mixVars, hsVars,
                   syncVars, slotRest, buf>>

\* the wait loop ends after 2 s without a frame: return None
CaptureTimeout ==
    /\ call.pc = "wait"
    /\ buf.slot = 0
    /\ call' = [call EXCEPT !.pc = "idle", !.prev = call.ret, !.ret = 0]
    /\ UNCHANGED <<es, last, seqVars, frameVars, statsVars, mapVars, mixVars, hsVars,
                   syncVars, slotRest, buf>>

\* return self._process_image(frame.copy())
CaptureReturn ==
    /\ call.pc = "copy"
    /\ call' = [call EXCEPT !.pc = "idle", !.prev = call.ret, !.ret = call.frame]
    /\ UNCHANGED <<es, last, seqVars, frameVars, statsVars, mapVars, mixVars, hsVars,
                   syncVars, slotRest, buf>>

\* A capture right after construction; the loop thread calls capture()
\* again and again.
SlotSpecInit ==
    /\ es = StreamInit
    /\ last = LastInit
    /\ SeqIdle
    /\ FrameIdle
    /\ SyncIdle
    /\ MoreIdle

SlotNext ==
    \/ PublishSample
    \/ CaptureEnter
    \/ CaptureRead
    \/ CaptureWait
    \/ CaptureTimeout
    \/ CaptureReturn

SlotSpec == SlotSpecInit /\ [][SlotNext]_vars

\* C28: while the pipeline runs the slot holds the newest frame published,
\* whether or not the one before it was read; a capture() that begins when
\* a frame has been published returns, without going through the wait
\* loop, the newest frame published before its read; and a capture() never
\* returns a frame older than the one the call before it returned.
C28_CaptureReturnsNewestFrame ==
    /\ cap.prun => buf.slot = buf.pub
    /\ call.pc = "copy" => call.frame # 0 /\ call.frame = call.newest
    /\ (call.pc = "copy" /\ call.had) => ~call.waited
    /\ (call.ret # 0 /\ call.prev # 0) => call.ret >= call.prev

\* a call that began with a frame published returned the third frame without
\* waiting, the call before it the first: the second frame was overwritten
\* unread
C28_Witness ==
    /\ call.pc = "idle"
    /\ call.had
    /\ ~call.waited
    /\ call.ret = 3
    /\ call.prev = 1

(***************************************************************************)
(* ModeManager (src/lumux/mode_manager.py) over the sync controller and    *)
(* the entertainment stream.  Every handler runs on the GLib main loop, so *)
(* each is one step; the 1000 ms timeout of switch_to_reading fires as a   *)
(* step of its own.  sync_controller.start() and stop() are followed as    *)
(* far as is_running() shows them.                                         *)
(***************************************************************************)
\* GLib timeouts that can be outstanding at once.
MaxTimers == 2

\* _finish_switch_to_reading; ok: reading.activate() updated a light
finish_switch_to_reading(m, run, s, ok) ==
    IF m.current_mode # "OFF"
    THEN [m EXCEPT !.pending = FALSE]
    ELSE [m EXCEPT !.pending = FALSE,
                   !.active = ok,
                   !.current_mode = IF ok THEN "READING" ELSE m.current_mode,
                   !.rest = IF run \/ is_connected(s) THEN "during_video" ELSE "apart"]

\* switch_to_reading with HAS_GLIB: the manager, the controller's running
\* flag and the stream it leaves
switch_to_reading(m, run, s, ok) ==
    IF m.pending
    THEN [mm |-> m, running |-> run, es |-> s]
    ELSE IF is_connected(s)
    THEN [mm |-> [m EXCEPT !.pending = TRUE, !.timers = m.timers + 1],
          running |-> FALSE,
          es |-> disconnect(s).es]
    ELSE [mm |-> finish_switch_to_reading(m, FALSE, s, ok), running |-> FALSE, es |-> s]

\* what a switch_to_reading() call leaves of the wish for reading mode: it
\* ends at once when reading.activate() ran and the bridge refused
want_after(m, s, ok) ==
    ~(~m.pending /\ ~is_connected(s) /\ m.current_mode = "OFF" /\ ~ok)

\* the timeouts turn_off leaves behind when it clears the pending flag
void_after(m, n) == IF m.pending THEN m.timers ELSE n.void

\* switch_to_video; ba: bridge.activate_entertainment_streaming succeeded
SwitchToVideo ==
    /\ \E ba \in BOOLEAN, cfg \in CfgOutcomes, act \in ActOutcomes, hs \in HsOutcomes :
          LET m1 == IF mm.current_mode = "READING" THEN [mm EXCEPT !.active = FALSE] ELSE mm
              r == connect(es, cfg, act, hs)
          IN  IF is_connected(es)
              THEN /\ es' = es
                   /\ running' = TRUE
                   /\ mm' = [m1 EXCEPT !.current_mode = "VIDEO"]
              ELSE IF ~ba
              THEN /\ es' = es
                   /\ running' = FALSE
                   /\ mm' = m1
              ELSE /\ es' = r.es
                   /\ running' = r.ret
                   /\ mm' = IF r.ret THEN [m1 EXCEPT !.current_mode = "VIDEO"] ELSE m1
    /\ note' = [note EXCEPT !.op = "switch_to_video", !.want = FALSE]
    /\ UNCHANGED <<last, seqVars, frameVars, statsVars, mapVars, mixVars, hsVars, thread, pc,
                   mainPc, cap, queue, zmap, modeRest>>

\* switch_to_reading called by the user
SwitchToReading ==
    /\ mm.pending \/ mm.timers < MaxTimers
    /\ \E ok \in BOOLEAN :
          LET r == switch_to_reading(mm, running, es, ok) IN
          /\ mm' = r.mm
          /\ running' = r.running
          /\ es' = r.es
          /\ note' = [note EXCEPT !.op = "switch_to_reading",
                                  !.want = want_after(mm, es, ok)]
    /\ UNCHANGED <<last, seqVars, frameVars, statsVars, mapVars, mixVars, hsVars, thread, pc,
                   mainPc, cap, queue, zmap, modeRest>>

\* the GLib timeout fires: _finish_switch_to_reading
TimerFires ==
    /\ mm.timers > 0
    /\ \E ok \in BOOLEAN :
          /\ mm' = finish_switch_to_reading([mm EXCEPT !.timers = mm.timers - 1],
                                            running, es, ok)
          /\ note' = [note EXCEPT !.op = "timer",
                                  !.want = note.want /\ ~(mm.current_mode = "OFF" /\ ~ok),
                                  !.void = Max2(0, note.void - 1),
                                  !.late = note.late \/ (note.void > 0 /\ mm.current_mode = "OFF")]
    /\ UNCHANGED <<es, last, seqVars, frameVars, syncVars, statsVars, mapVars, mixVars,
                   hsVars, modeRest>>

\* turn_off: the pending flag is cleared, the timeout is not removed
TurnOff ==
    /\ running' = FALSE
    /\ es' = IF is_connected(es) THEN disconnect(es).es ELSE es
    /\ mm' = [mm EXCEPT !.pending = FALSE, !.active = FALSE, !.current_mode = "OFF"]
    /\ note' = [note EXCEPT !.op = "turn_off", !.want = FALSE, !.void = void_after(mm, note)]
    /\ UNCHANGED <<last, seqVars, frameVars, statsVars, mapVars, mixVars, hsVars, thread, pc,
                   mainPc, cap, queue, zmap, modeRest>>

\* on_video_sync_stopped
OnVideoSyncStopped ==
    /\ mm.auto /\ ~mm.pending => mm.timers < MaxTimers
    /\ IF mm.current_mode # "VIDEO"
       THEN /\ UNCHANGED <<mm, running, es>>
            /\ note' = [note EXCEPT !.op = "on_video_sync_stopped"]
       ELSE IF mm.auto
       THEN \E ok \in BOOLEAN :
               LET r == switch_to_reading([mm EXCEPT !.current_mode = "OFF"],
                                          running, es, ok)
               IN  /\ mm' = r.mm
                   /\ running' = r.running
                   /\ es' = r.es
                   /\ note' = [note EXCEPT
                                  !.op = "on_video_sync_stopped",
                                  !.want = want_after([mm EXCEPT !.current_mode = "OFF"],
                                                      es, ok)]
       ELSE /\ mm' = [mm EXCEPT !.current_mode = "OFF"]
            /\ note' = [note EXCEPT !.op = "on_video_sync_stopped"]
            /\ UNCHANGED <<running, es>>
    /\ UNCHANGED <<last, seqVars, frameVars, statsVars, mapVars, mixVars, hsVars, thread, pc,
                   mainPc, cap, queue, zmap, modeRest>>

\* MainWindow._on_stop_clicked: with auto_activate only sync_controller.stop(),
\* turn_off otherwise
StopClicked ==
    /\ running
    /\ IF mm.auto
       THEN /\ running' = FALSE
            /\ note' = [note EXCEPT !.op = "stop_clicked"]
            /\ UNCHANGED <<mm, es>>
       ELSE /\ running' = FALSE
            /\ es' = IF is_connected(es) THEN disconnect(es).es ELSE es
            /\ mm' = [mm EXCEPT !.pending = FALSE, !.active = FALSE, !.current_mode = "OFF"]
            /\ note' = [note EXCEPT !.op = "turn_off", !.want = FALSE,
                                    !.void = void_after(mm, note)]
    /\ UNCHANGED <<last, seqVars, frameVars, statsVars, mapVars, mixVars, hsVars, thread, pc,
                   mainPc, cap, queue, zmap, modeRest>>

\* A manager right after construction, with auto_activate on or off.
ModeSpecInit ==
    /\ es = StreamInit
    /\ last = LastInit
    /\ SeqIdle
    /\ FrameIdle
    /\ SyncIdle
    /\ StatsIdle /\ MapIdle /\ MixIdle /\ HueSyncIdle
    /\ ZoneIdle /\ FpsIdle /\ DetIdle /\ ColorIdle /\ ToneIdle /\ SlotIdle
    /\ CountIdle /\ WorkerIdle
    /\ \E auto_activate \in BOOLEAN : mm = ModeManagerInit(auto_activate)
    /\ note = NoNote

ModeNext ==
    \/ SwitchToVideo
    \/ SwitchToReading
    \/ TimerFires
    \/ TurnOff
    \/ StopClicked
    \/ OnVideoSyncStopped

ModeSpec == ModeSpecInit /\ [][ModeNext]_vars

\* C30: under any sequence of switch_to_video, switch_to_reading, turn_off
\* and on_video_sync_stopped calls and timer firings, reading mode is
\* activated only while the sync loop is not running and the entertainment
\* stream is not connected.
C30_ReadingOnlyWhenVideoStopped == mm.rest # "during_video"

\* a GLib timeout that is due is run by the main loop
FairModeSpec == ModeSpec /\ WF_vars(TimerFires)

\* reading mode is on: the mode is READING and the reading controller active
ReadingOn == mm.current_mode = "READING" /\ mm.active

\* C31: after a switch_to_reading() call, in whichever mode it was made, the
\* sync loop is stopped and the stream disconnected, and unless the bridge
\* refuses the light update or another request follows, the manager
\* eventually is in READING mode with the reading controller active.
C31_SwitchToReadingReachesReading ==
    /\ [](note.op = "switch_to_reading" => ~running /\ ~is_connected(es))
    /\ (note.want ~> (~note.want \/ ReadingOn))

\* C32: a timeout that was outstanding when turn_off() cancelled the pending
\* activation never calls reading.activate() when it fires.
C32_TurnOffCancelsPendingActivation == ~note.late

(***************************************************************************)
(* The ModeManager and AppContext.shutdown over a streaming session that   *)
(* can die: the openssl subprocess exits, or a send of the loop fails.     *)
(***************************************************************************)
\* the loop thread sends the colours of a tick: _update_lights
SessionSend ==
    /\ running
    /\ is_connected(es)
    /\ es.sequence < MaxSyncFrames
    /\ \E w \in WriteOutcomes : es' = send_colors_xy(es, w).es
    /\ UNCHANGED <<last, seqVars, frameVars, syncVars, moreVars>>

\* the subprocess of a session exits on its own
SessionDies ==
    /\ ProcExit
    /\ es.claimed

\* AppContext.shutdown(): stop() when the controller runs, then
\* stop_entertainment()
AppShutdown ==
    /\ running' = FALSE
    /\ es' = stop_entertainment(es)
    /\ note' = [note EXCEPT !.op = "shutdown", !.want = FALSE]
    /\ UNCHANGED <<last, seqVars, frameVars, statsVars, mapVars, mixVars, hsVars, thread, pc,
                   mainPc, cap, queue, zmap, mm, modeRest>>

DeadNext ==
    \/ ModeNext
    \/ SessionSend
    \/ SessionDies
    \/ AppShutdown

DeadSpec == ModeSpecInit /\ [][DeadNext]_vars

\* C33: when turn_off() or shutdown() has returned, the zone is not left
\* REST-activated, also when the encrypted session died after connect().
C33_TurnOffReleasesZoneOfDeadSession ==
    note.op \in {"turn_off", "shutdown"} => ~es.claimed

\* stop() has returned and start() was not called since
StoppedSince == mainPc = "idle" /\ ~running /\ thread > 0

\* the step acquires no portal session and builds or starts no pipeline
NoAcquire ==
    /\ cap'.handle => cap.handle
    /\ cap'.node => cap.node
    /\ cap'.pipeline => cap.pipeline
    /\ cap'.prun => cap.prun

\* C34: between the return of stop() and the next start() no step acquires
\* the portal session or builds or starts the capture pipeline, whether or
\* not a loop thread outlived the join.
C34_CaptureStaysReleasedAfterStop == [][StoppedSince => NoAcquire]_vars

(***************************************************************************)
(* The zone-channel map under a settings update in mid-session:            *)
(* AppContext.apply_settings stores the configured grid into the zone      *)
(* processor while the loop runs.                                          *)
(***************************************************************************)
\* A controller over a connected stream with one or two channels, not
\* started yet.
LayoutSpecInit ==
    /\ es = StreamConnected
    /\ last = LastInit
    /\ SeqIdle
    /\ FrameIdle
    /\ SyncIdle
    /\ StatsIdle
    /\ MixIdle
    /\ HueSyncIdle
    /\ LateIdle
    /\ layout \in Layouts
    /\ chans \in ToneChannels
    /\ zcm = EmptyMap
    /\ bpos = -1
    /\ seen = {}

LayoutNext ==
    \/ MapStart
    \/ \E t \in Threads : LoopCheck(t) \/ MapTick(t) \/ LoopSleep(t)
    \/ ApplyLayout

LayoutSpec == LayoutSpecInit /\ [][LayoutNext]_vars

\* a step that is the map lookup of a tick
TickLookup == \E t \in Threads : pc[t] = "tick" /\ pc'[t] = "sleep"

\* C35: in every tick of a running sync with at least one channel known,
\* every zone id the zone processor produces is found in the zone-channel
\* map, also after rows and cols were changed by a settings update.
C35_EveryZoneOfTickIsMapped ==
    [][(TickLookup /\ chans # <<>>) =>
          seen' = Range(get_zone_ids(layout.rows, layout.cols))]_vars

\* the step in which a loop thread leaves _sync_loop puts 'stopped' behind
\* everything that is unread in the status queue
StoppedPublished ==
    \A t \in Threads :
        (pc[t] # "exited" /\ pc'[t] = "exited") => queue' = Append(queue, "stopped")

\* the queue is first in, first out: a step appends one event, or the
\* consumer takes everything there is, in order
FifoKept ==
    \/ queue' = queue
    \/ queue' = <<>>
    \/ \E ev \in {"syncing", "error", "stopped"} : queue' = Append(queue, ev)

\* C36: every run of the loop ends by publishing one 'stopped' event, which
\* the consumer receives after every other event of the run, however many
\* events are unread in the queue at that moment.
C36_RunEndsWithStoppedEvent == [][StoppedPublished /\ FifoKept]_vars

\* the part of it that holds whatever the queue holds: events are never
\* reordered
QueueKeepsOrder == [][FifoKept]_vars

(***************************************************************************)
(* The counters of _sync_loop with every loop thread the controller can    *)
(* have (sync.py 187-230).  `self._stats['frame_count'] += 1` and          *)
(* `self._stats['errors'] += 1` are a load, an addition and a store, not   *)
(* under self.lock; reset_stats() is never called here.                    *)
(***************************************************************************)
\* _process_frame and the sleep of an iteration: an exception leads to the
\* handler, a frame or no frame to the frame_count statement
CountTick(t) ==
    /\ pc[t] = "tick"
    /\ tally.done < MaxCount
    /\ \E o \in TickOutcomes :
          pc' = [pc EXCEPT ![t] = IF o = "raise" THEN "r_err" ELSE "r_fc"]
    /\ UNCHANGED <<es, last, seqVars, frameVars, statsVars, mapVars, mixVars, hsVars,
                   running, thread, mainPc, cap, queue, zmap, lateVars>>

\* self._stats['frame_count'] += 1: the old value is loaded
CountReadCount(t) ==
    /\ pc[t] = "r_fc"
    /\ regs' = [regs EXCEPT ![t] = tally.frame_count]
    /\ pc' = [pc EXCEPT ![t] = "w_fc"]
    /\ UNCHANGED <<es, last, seqVars, frameVars, statsVars, mapVars, mixVars, hsVars,
                   running, thread, mainPc, cap, queue, zmap, countRest, tally>>

\* ... and the sum stored: the iteration is complete
CountWriteCount(t) ==
    /\ pc[t] = "w_fc"
    /\ tally' = [tally EXCEPT !.frame_count = regs[t] + 1, !.done = tally.done + 1]
    /\ pc' = [pc EXCEPT ![t] = "top"]
    /\ UNCHANGED <<es, last, seqVars, frameVars, statsVars, mapVars, mixVars, hsVars,
                   running, thread, mainPc, cap, queue, zmap, countRest, regs>>

\* except Exception: self._stats['errors'] += 1, the load
CountReadErrors(t) ==
    /\ pc[t] = "r_err"
    /\ regs' = [regs EXCEPT ![t] = tally.errors]
    /\ pc' = [pc EXCEPT ![t] = "w_err"]
    /\ UNCHANGED <<es, last, seqVars, frameVars, statsVars, mapVars, mixVars, hsVars,
                   running, thread, mainPc, cap, queue, zmap, countRest, tally>>

\* ... the store, then the 'error' status; time.sleep(1) follows
CountWriteErrors(t) ==
    /\ pc[t] = "w_err"
    /\ tally' = [tally EXCEPT !.errors = regs[t] + 1, !.done = tally.done + 1]
    /\ queue' = queue_status(queue, "error")
    /\ pc' = [pc EXCEPT ![t] = "backoff"]
    /\ UNCHANGED <<es, last, seqVars, frameVars, statsVars, mapVars, mixVars, hsVars,
                   running, thread, mainPc, cap, zmap, countRest, regs>>

CountStep(t) ==
    \/ LoopCheck(t)
    \/ CountTick(t)
    \/ CountReadCount(t)
    \/ CountWriteCount(t)
    \/ CountReadErrors(t)
    \/ CountWriteErrors(t)
    \/ LoopBackoff(t)

\* the loop threads counting, with start() and a stop() whose join ends
\* with the thread
JoinedCountNext ==
    \/ Start
    \/ StopBegin
    \/ StopJoined
    \/ StopRelease
    \/ StopReturn
    \/ \E t \in Threads : CountStep(t)
    \/ GuiDrain

\* ... and with a stop() whose join can time out
CountNext ==
    \/ JoinedCountNext
    \/ StopTimedOut

JoinedCountSpec == SyncSpecInit /\ [][JoinedCountNext]_vars

CountSpec == SyncSpecInit /\ [][CountNext]_vars

\* no loop thread is between the load and the store of a counter
NoneCounting == \A t \in Threads : pc[t] \notin {"r_fc", "w_fc", "r_err", "w_err"}

\* C37: without reset_stats(), whenever no iteration is in the middle of
\* its counter statement, frame_count + errors is the number of iterations
\* completed: each iteration adds exactly 1 to exactly one of the two.
C37_CountersSumToIterations ==
    NoneCounting => tally.frame_count + tally.errors = tally.done

(***************************************************************************)
(* LightUpdateWorker (src/lumux/light_updater.py).  A dict is a function   *)
(* from the lights it holds to payloads; a payload is the number of the    *)
(* enqueue call that brought it.  Each `with self._lock` block is one      *)
(* step.  The producers enqueue 'gradient' and 'color' payloads only       *)
(* (src/hue_sync/sync.py 312-333).                                         *)
(***************************************************************************)
\* Payloads enqueued in one behaviour.
MaxPayloads == 2

\* a payload already waiting for the light is kept
MutEnqueueKeepsWaiting(latest_updates, light_id, payload) ==
    IF light_id \in DOMAIN latest_updates
    THEN latest_updates
    ELSE [l \in DOMAIN latest_updates \cup {light_id} |->
             IF l = light_id THEN payload ELSE latest_updates[l]]

\* enqueue: self._latest_updates[light_id] = payload
enqueue(latest_updates, light_id, payload) ==
    [l \in DOMAIN latest_updates \cup {light_id} |->
        IF l = light_id THEN payload ELSE latest_updates[l]]

\* a dict without one of its keys
without(updates, light_id) ==
    [l \in DOMAIN updates \ {light_id} |-> updates[l]]

\* self._thread.is_alive()
worker_alive(w) == w # 0 /\ lw.pc[w] \notin {"unborn", "exited"}

\* the worker threads inside _flush with updates left to send
Flushing(l) == {w \in Workers : lw.pc[w] = "send" /\ l \in DOMAIN lw.updates[w]}

\* enqueue() on a producer thread
Enqueue ==
    /\ lwh.serial < MaxPayloads
    /\ \E l \in WorkerLights :
          /\ lw' = [lw EXCEPT !.latest_updates =
                                  enqueue(lw.latest_updates, l, lwh.serial + 1)]
          /\ lwh' = [lwh EXCEPT !.serial = lwh.serial + 1,
                                !.latest[l] = lwh.serial + 1,
                                !.raced = lwh.raced \/ Flushing(l) # {}]
    /\ UNCHANGED <<es, last, seqVars, frameVars, syncVars, statsVars, mapVars, mixVars,
                   hsVars, workerRest>>

\* start(): nothing when _thread is alive; else the event is cleared and a
\* thread spawned
WorkerStart ==
    /\ lw.caller = "idle"
    /\ ~worker_alive(lw.thread)
    /\ \E w \in Workers :
          /\ lw.pc[w] = "unborn"
          /\ \A v \in Workers : v < w => lw.pc[v] # "unborn"
          /\ lw' = [lw EXCEPT !.stop = FALSE, !.thread = w, !.pc[w] = "check"]
    /\ UNCHANGED <<es, last, seqVars, frameVars, syncVars, statsVars, mapVars, mixVars,
                   hsVars, workerRest, lwh>>

\* stop(): self._stop_event.set(), then the join when there is a thread
WorkerStop ==
    /\ lw.caller = "idle"
    /\ lw' = [lw EXCEPT !.stop = TRUE,
                        !.caller = IF lw.thread # 0 THEN "join" ELSE "idle"]
    /\ UNCHANGED <<es, last, seqVars, frameVars, syncVars, statsVars, mapVars, mixVars,
                   hsVars, workerRest, lwh>>

\* join(timeout=2) returns, with the thread ended or after 2 s with the
\* thread still inside a flush; self._thread = None
WorkerJoin ==
    /\ lw.caller = "join"
    /\ lw.pc[lw.thread] \in {"exited", "send"}
    /\ lw' = [lw EXCEPT !.thread = 0, !.caller = "idle"]
    /\ UNCHANGED <<es, last, seqVars, frameVars, syncVars, statsVars, mapVars, mixVars,
                   hsVars, workerRest, lwh>>

\* while not self._stop_event.is_set()
WorkerCheck(w) ==
    /\ lw.pc[w] = "check"
    /\ lw' = [lw EXCEPT !.pc[w] = IF lw.stop THEN "exited" ELSE "swap"]
    /\ UNCHANGED <<es, last, seqVars, frameVars, syncVars, statsVars, mapVars, mixVars,
                   hsVars, workerRest, lwh>>

\* _flush, the first lock block: updates = self._latest_updates;
\* self._latest_updates = {}; `if not updates: return`
WorkerSwap(w) ==
    /\ lw.pc[w] = "swap"
    /\ lw' = [lw EXCEPT !.updates[w] = lw.latest_updates,
                        !.latest_updates = EmptyMap,
                        !.sent[w] = 0,
                        !.pc[w] = IF lw.latest_updates = EmptyMap THEN "wait" ELSE "send"]
    /\ lwh' = [lwh EXCEPT !.calls[w] = [l \in WorkerLights |-> 0]]
    /\ UNCHANGED <<es, last, seqVars, frameVars, syncVars, statsVars, mapVars, mixVars,
                   hsVars, workerRest>>

\* one round of the loop over updates.items(): the bridge call for a light,
\* which returns or raises
WorkerSend(w) ==
    /\ lw.pc[w] = "send"
    /\ \E l \in DOMAIN lw.updates[w], ok \in BOOLEAN :
          /\ lw' = [lw EXCEPT !.updates[w] = without(lw.updates[w], l),
                              !.sent[w] = IF ok THEN lw.sent[w] + 1 ELSE lw.sent[w],
                              !.pc[w] = IF DOMAIN lw.updates[w] = {l} THEN "stats"
                                        ELSE "send"]
          /\ lwh' = [lwh EXCEPT !.calls[w][l] = lwh.calls[w][l] + 1,
                                !.handed[l] = lwh.handed[l] \cup {lw.updates[w][l]}]
    /\ UNCHANGED <<es, last, seqVars, frameVars, syncVars, statsVars, mapVars, mixVars,
                   hsVars, workerRest>>

\* _flush, the second lock block: the stats
WorkerStats(w) ==
    /\ lw.pc[w] = "stats"
    /\ lw' = [lw EXCEPT !.stats = [last_flush_count |-> lw.sent[w],
                                   flushs |-> lw.stats.flushs + 1],
                        !.pc[w] = "wait"]
    /\ UNCHANGED <<es, last, seqVars, frameVars, syncVars, statsVars, mapVars, mixVars,
                   hsVars, workerRest, lwh>>

\* self._stop_event.wait(to_sleep) returns
WorkerWait(w) ==
    /\ lw.pc[w] = "wait"
    /\ lw' = [lw EXCEPT !.pc[w] = "check"]
    /\ UNCHANGED <<es, last, seqVars, frameVars, syncVars, statsVars, mapVars, mixVars,
                   hsVars, workerRest, lwh>>

\* _run on a worker thread
WorkerRun(w) ==
    \/ WorkerCheck(w)
    \/ WorkerSwap(w)
    \/ WorkerSend(w)
    \/ WorkerStats(w)
    \/ WorkerWait(w)

\* A worker right after construction.
WorkerSpecInit ==
    /\ es = StreamInit
    /\ last = LastInit
    /\ SeqIdle
    /\ FrameIdle
    /\ SyncIdle
    /\ MoreIdle

WorkerNext ==
    \/ Enqueue
    \/ WorkerStart
    \/ WorkerStop
    \/ WorkerJoin
    \/ \E w \in Workers : WorkerRun(w)

WorkerSpec == WorkerSpecInit /\ [][WorkerNext]_vars

\* every worker thread is an OS thread that keeps being scheduled
FairWorkerSpec == WorkerSpec /\ \A w \in Workers : WF_vars(WorkerRun(w))

\* the worker runs: the event is clear and a thread is inside _run
WorkerRuns == ~lw.stop /\ \E w \in Workers : worker_alive(w)

\* the payload enqueued last for every light waits in the dict, is held by
\* a flush in progress, or was handed to the bridge
NothingLost ==
    \A l \in WorkerLights :
        lwh.latest[l] # 0 =>
            \/ l \in DOMAIN lw.latest_updates /\ lw.latest_updates[l] = lwh.latest[l]
            \/ \E w \in Flushing(l) : lw.updates[w][l] = lwh.latest[l]
            \/ lwh.latest[l] \in lwh.handed[l]

\* a payload enqueued last for its light was not handed to the bridge yet
Waiting == \E l \in WorkerLights : lwh.latest[l] # 0 /\ lwh.latest[l] \notin lwh.handed[l]

\* C38: a flush calls the bridge at most once per light, a payload waiting
\* in the dict is the one enqueued last for its light, so that a flush
\* takes and sends the payload enqueued last before its swap, no payload
\* enqueued last for its light is lost, whether it came before, during or
\* after a flush, and while the worker runs every light's last payload is
\* eventually handed to the bridge.
C38_FlushSendsLatestPayloadPerLight ==
    /\ [](\A w \in Workers, l \in WorkerLights : lwh.calls[w][l] <= 1)
    /\ [](\A l \in DOMAIN lw.latest_updates : lw.latest_updates[l] = lwh.latest[l])
    /\ []NothingLost
    /\ ((Waiting /\ WorkerRuns) ~> (~Waiting \/ ~WorkerRuns))

\* a payload was enqueued for a light while a flush was sending the one
\* before it, and both were handed to the bridge in two flushes
C38_Witness ==
    /\ lwh.raced
    /\ lwh.latest["a"] = 2
    /\ lwh.handed["a"] = {1, 2}
    /\ lw.stats.flushs = 2

====
